---- MODULE Spec2Model ----
(***************************************************************************)
(* Model of the aggregate root / domain event / soft delete subsystem of   *)
(* GoClean: the entities (BaseEntity, AggregateRoot, User, Product,        *)
(* Order), the DomainEventDispatcher and the UserAggregateService.         *)
(*                                                                         *)
(* SpecAgg drives one in-memory aggregate through the exported methods of *)
(* the entities.                                                           *)
(* SpecDisp drives a dispatcher, its handlers and its publisher over the   *)
(* event buffer of one aggregate.                                          *)
(* Spec drives UserAggregateService invocations of two callers against the *)
(* users table; SpecSeq drives those of one caller, one after the other.  *)
(***************************************************************************)
EXTENDS Integers, Sequences, FiniteSets, TLC

\* ------------------------------------------------------------------------
\* Bounds
\* ------------------------------------------------------------------------
MaxTime == 2        \* the clock runs over 1..MaxTime
MaxEvents == 2      \* longest event buffer explored
MaxHandlers == 2    \* most handlers registered with the dispatcher
MaxAggs == 1        \* factory calls explored by SpecAgg
MaxUsers == 2       \* NewUser calls explored by Spec
MaxOps == 3         \* UserAggregateService invocations explored by Spec
MaxSeqOps == 4      \* UserAggregateService invocations explored by SpecSeq
MaxPrice == 3     \* the prices ValidateProduct is applied to: -1..MaxPrice
MaxOrders == 1    \* orders OrderDomainService creates

\* ------------------------------------------------------------------------
\* Values
\* ------------------------------------------------------------------------
NoTime == 0                      \* a nil *time.Time
NoAgg == [kind |-> "none"]       \* no aggregate constructed yet
NoPublisher == "nil"             \* DomainEventDispatcher.publisher == nil
NoErr == [kind |-> "nil", call |-> 0]
NoReturn == [kind |-> "void", call |-> 0]   \* the method has no result
NoInput == [failAt |-> 0, pubFails |-> FALSE]

OrderStatusPending == "pending"
OrderStatusConfirmed == "confirmed"
OrderStatusShipped == "shipped"
OrderStatusDelivered == "delivered"
OrderStatusCancelled == "cancelled"

EventTypes ==
    {"UserCreated", "UserDeleted", "ProductCreated", "ProductDeleted",
     "OrderCreated", "OrderCancelled"}

\* a DomainEvent: EventType(), the id of its aggregate, OccurredOn()
Event(type, id, at) == [type |-> type, id |-> id, at |-> at]

\* the item lists handed to NewOrder
OrderItemLists ==
    { <<>>,
      <<[price |-> 2, quantity |-> 1], [price |-> 3, quantity |-> 2]>> }

\* ------------------------------------------------------------------------
\* Event handlers: the three handlers of the repository, whose Handle
\* always returns nil, and one further implementation of the
\* DomainEventHandler interface, whose Handle may return an error.
\* ------------------------------------------------------------------------
HandlerKinds ==
    {"UserCreatedEventHandler", "UserDeletedEventHandler",
     "ProductCreatedEventHandler", "AnyEventHandler"}

CanHandle(h, e) ==
    CASE h = "UserCreatedEventHandler" -> e.type = "UserCreated"
      [] h = "UserDeletedEventHandler" -> e.type = "UserDeleted"
      [] h = "ProductCreatedEventHandler" -> e.type = "ProductCreated"
      [] h = "AnyEventHandler" -> TRUE

\* can Handle of this handler return a non-nil error
MayFail(h) == h = "AnyEventHandler"


\* ------------------------------------------------------------------------
\* Inputs
\* ------------------------------------------------------------------------
Emails == {"alice@example.com", "bob@example.com"}
Usernames == {"alice", "bob"}
\* the users SpecAgg constructs
UserInputs ==
    { [email |-> "alice@example.com", username |-> "alice"],
      [email |-> "bob@example.com", username |-> "bob"] }
ProductInputs ==
    { [name |-> "book", sku |-> "SKU-1", price |-> 5],
      [name |-> "", sku |-> "SKU-2", price |-> 0] }

NoProfile == [kind |-> "none"]   \* User.Profile == nil

\* ------------------------------------------------------------------------
\* State
\* ------------------------------------------------------------------------
VARIABLES
    now,        \* time.Now()
    nextId,     \* the next value uuid.New() returns
    agg,        \* the in-memory aggregate SpecAgg works on
    handlers,   \* DomainEventDispatcher.handlers, in registration order
    publisher,  \* DomainEventDispatcher.publisher
    lastOp,     \* the method called last
    prevOp,     \* the method called before that one
    calledAt,   \* the time of the last call
    inp,        \* what the handlers and the publisher answered in that call,
                \* and the event handed to AddDomainEvent
    lastErr,    \* what it returned
    pre,        \* the aggregate as it was when that method was called
    calls,      \* the Handle invocations of the last DispatchEvents, in order
    published,  \* the batches handed to Publish by the last DispatchEvents
    db,         \* the users table: id -> row
    proc,       \* the UserAggregateService invocation of each caller
    ops,        \* invocations started so far
    lost,       \* the events in the buffers of the invocations a crash ended
    profiles,   \* the profiles table: a set of rows
    orders      \* the orders table: id -> row, with its items

svcVars == <<db, proc, ops, lost, profiles, orders>>

aggVars == <<now, nextId, agg, handlers, publisher, lastOp, prevOp, calledAt,
             inp, lastErr, pre, calls, published>>

vars == <<aggVars, svcVars>>

\* ------------------------------------------------------------------------
\* BaseEntity and AggregateRoot
\* ------------------------------------------------------------------------
IsDeleted(be) == be.deletedAt # NoTime

\* SoftDelete that keeps the first deletion time of a deleted entity
SoftDeleteOnce(be, t) == IF IsDeleted(be) THEN be ELSE [be EXCEPT !.deletedAt = t]

SoftDelete(be, t) == [be EXCEPT !.deletedAt = t]

\* Restore that stores a pointer to the zero time instead of nil
RestoreZeroTime(be) == [be EXCEPT !.deletedAt = -1]

\* Restore that leaves DeletedAt alone
RestoreNoOp(be) == be

\* Restore that raises an event, as Delete does
RestoreRaisesEvent(be) ==
    [be EXCEPT !.deletedAt = NoTime,
               !.domainEvents = Append(@, Event("UserRestored", be.id, NoTime))]

\* Restore that brings the owned Profile back as well
RestoreWithChildren(be) ==
    IF "profile" \in DOMAIN be /\ be.profile # NoProfile
    THEN [be EXCEPT !.deletedAt = NoTime, !.profile.deletedAt = NoTime]
    ELSE [be EXCEPT !.deletedAt = NoTime]

Restore(be) == [be EXCEPT !.deletedAt = NoTime]

\* AddDomainEvent that skips an event the buffer already holds
AddDomainEventDedup(ar, e) ==
    IF \E i \in 1..Len(ar.domainEvents) : ar.domainEvents[i] = e
    THEN ar
    ELSE [ar EXCEPT !.domainEvents = Append(@, e)]

AddDomainEvent(ar, e) == [ar EXCEPT !.domainEvents = Append(@, e)]

DomainEvents(ar) == ar.domainEvents

ClearDomainEvents(ar) == [ar EXCEPT !.domainEvents = <<>>]

\* ------------------------------------------------------------------------
\* Aggregates
\* ------------------------------------------------------------------------
NewUser(id, email, username, t) ==
    AddDomainEvent(
        [kind |-> "User", id |-> id, createdAt |-> t, updatedAt |-> t,
         deletedAt |-> NoTime, email |-> email, username |-> username,
         isActive |-> TRUE, profile |-> NoProfile, domainEvents |-> <<>>],
        Event("UserCreated", id, t))

\* a Profile, the child entity of the User aggregate
NewProfile(id, userID, t) ==
    [id |-> id, createdAt |-> t, updatedAt |-> t, deletedAt |-> NoTime,
     userID |-> userID]

\* Delete that returns early on a deleted user
UserDeleteGuarded(u, t) ==
    IF IsDeleted(u) THEN u
    ELSE AddDomainEvent([SoftDelete(u, t) EXCEPT !.isActive = FALSE],
                        Event("UserDeleted", u.id, t))

\* Delete that leaves the business flag set
UserDeleteKeepsActive(u, t) ==
    AddDomainEvent(SoftDelete(u, t), Event("UserDeleted", u.id, t))

\* Delete that raises no event
UserDeleteNoEvent(u, t) == [SoftDelete(u, t) EXCEPT !.isActive = FALSE]

UserDelete(u, t) ==
    AddDomainEvent([SoftDelete(u, t) EXCEPT !.isActive = FALSE],
                   Event("UserDeleted", u.id, t))

NewProduct(id, in, t) ==
    AddDomainEvent(
        [kind |-> "Product", id |-> id, createdAt |-> t, updatedAt |-> t,
         deletedAt |-> NoTime, name |-> in.name, sku |-> in.sku,
         price |-> in.price, isActive |-> TRUE, domainEvents |-> <<>>],
        Event("ProductCreated", id, t))

\* Delete that forgets the business flag
ProductDeleteKeepsActive(p, t) ==
    AddDomainEvent(SoftDelete(p, t), Event("ProductDeleted", p.id, t))

ProductDelete(p, t) ==
    AddDomainEvent([SoftDelete(p, t) EXCEPT !.isActive = FALSE],
                   Event("ProductDeleted", p.id, t))

RECURSIVE TotalPrice(_)
TotalPrice(items) ==
    IF items = <<>> THEN 0
    ELSE Head(items).price * Head(items).quantity + TotalPrice(Tail(items))

\* NewOrder that raises no event
NewOrderNoEvent(id, items, t) ==
    [kind |-> "Order", id |-> id, createdAt |-> t, updatedAt |-> t,
     deletedAt |-> NoTime, status |-> OrderStatusPending,
     totalPrice |-> TotalPrice(items), items |-> items,
     domainEvents |-> <<>>]

NewOrder(id, items, t) ==
    AddDomainEvent(
        [kind |-> "Order", id |-> id, createdAt |-> t, updatedAt |-> t,
         deletedAt |-> NoTime, status |-> OrderStatusPending,
         totalPrice |-> TotalPrice(items), items |-> items,
         domainEvents |-> <<>>],
        Event("OrderCreated", id, t))

OrderCancel(o, t) ==
    AddDomainEvent([o EXCEPT !.status = OrderStatusCancelled, !.updatedAt = t],
                   Event("OrderCancelled", o.id, t))

\* Delete() of the aggregate types that have one
Delete(a, t) ==
    IF a.kind = "User" THEN UserDelete(a, t) ELSE ProductDelete(a, t)

\* the events AddDomainEvent can be handed for aggregate a at time t
EventsOf(a, t) ==
    CASE a.kind = "User" ->
            {Event("UserCreated", a.id, t), Event("UserDeleted", a.id, t)}
      [] a.kind = "Product" ->
            {Event("ProductCreated", a.id, t), Event("ProductDeleted", a.id, t)}
      [] a.kind = "Order" ->
            {Event("OrderCreated", a.id, t), Event("OrderCancelled", a.id, t)}

\* ------------------------------------------------------------------------
\* DomainEventDispatcher
\* ------------------------------------------------------------------------
\* the loops of DispatchEvents nested the other way round: handlers
\* outermost, events innermost
RECURSIVE MatchingHandlerMajor(_, _, _)
MatchingHandlerMajor(evs, hs, k) ==
    IF k > Len(evs) * Len(hs) THEN <<>>
    ELSE LET j == ((k - 1) \div Len(evs)) + 1
             i == ((k - 1) % Len(evs)) + 1
         IN  (IF CanHandle(hs[j], evs[i])
                 THEN <<[handler |-> j, index |-> i, event |-> evs[i]]>>
                 ELSE <<>>)
             \o MatchingHandlerMajor(evs, hs, k + 1)

\* The Handle invocations of the two nested loops of DispatchEvents when no
\* handler fails: events outermost, handlers in registration order, gated
\* by CanHandle.  k runs over the (event, handler) pairs in loop order.
RECURSIVE Matching(_, _, _)
Matching(evs, hs, k) ==
    IF k > Len(evs) * Len(hs) THEN <<>>
    ELSE LET i == ((k - 1) \div Len(hs)) + 1
             j == ((k - 1) % Len(hs)) + 1
         IN  (IF CanHandle(hs[j], evs[i])
                 THEN <<[handler |-> j, index |-> i, event |-> evs[i]]>>
                 ELSE <<>>)
             \o Matching(evs, hs, k + 1)

\* the invocations at which a run of DispatchEvents can get an error back;
\* 0: every Handle returns nil
FailPoints(evs, hs) ==
    LET inv == Matching(evs, hs, 1)
    IN  {0} \cup {k \in 1..Len(inv) : MayFail(hs[inv[k].handler])}

\* DispatchEvents that logs a handler error and carries on
DispatchEventsIgnoreHandlerError(ar, hs, pub, failAt, pubFails) ==
    LET events == DomainEvents(ar)
        inv == Matching(events, hs, 1)
    IN  IF Len(events) = 0
        THEN [err |-> NoErr, calls |-> <<>>, published |-> <<>>, root |-> ar]
        ELSE IF pub # NoPublisher /\ pubFails
        THEN [err |-> [kind |-> "publisher", call |-> 0],
              calls |-> inv, published |-> <<events>>, root |-> ar]
        ELSE [err |-> NoErr, calls |-> inv,
              published |-> IF pub # NoPublisher THEN <<events>> ELSE <<>>,
              root |-> ClearDomainEvents(ar)]

\* DispatchEvents that clears the buffer before it publishes
DispatchEventsClearBeforePublish(ar, hs, pub, failAt, pubFails) ==
    LET events == DomainEvents(ar)
        inv == Matching(events, hs, 1)
    IN  IF Len(events) = 0
        THEN [err |-> NoErr, calls |-> <<>>, published |-> <<>>, root |-> ar]
        ELSE IF failAt > 0
        THEN [err |-> [kind |-> "handler", call |-> failAt],
              calls |-> SubSeq(inv, 1, failAt), published |-> <<>>,
              root |-> ar]
        ELSE IF pub # NoPublisher /\ pubFails
        THEN [err |-> [kind |-> "publisher", call |-> 0],
              calls |-> inv, published |-> <<events>>,
              root |-> ClearDomainEvents(ar)]
        ELSE [err |-> NoErr, calls |-> inv,
              published |-> IF pub # NoPublisher THEN <<events>> ELSE <<>>,
              root |-> ClearDomainEvents(ar)]

\* DispatchEvents without the early return on an empty buffer
DispatchEventsNoEmptyCheck(ar, hs, pub, failAt, pubFails) ==
    LET events == DomainEvents(ar)
        inv == Matching(events, hs, 1)
    IN  IF failAt > 0
        THEN [err |-> [kind |-> "handler", call |-> failAt],
              calls |-> SubSeq(inv, 1, failAt), published |-> <<>>,
              root |-> ar]
        ELSE IF pub # NoPublisher /\ pubFails
        THEN [err |-> [kind |-> "publisher", call |-> 0],
              calls |-> inv, published |-> <<events>>, root |-> ar]
        ELSE [err |-> NoErr, calls |-> inv,
              published |-> IF pub # NoPublisher THEN <<events>> ELSE <<>>,
              root |-> ClearDomainEvents(ar)]

\* DispatchEvents that publishes the batch before it runs the handlers
DispatchEventsPublishFirst(ar, hs, pub, failAt, pubFails) ==
    LET events == DomainEvents(ar)
        inv == Matching(events, hs, 1)
    IN  IF Len(events) = 0
        THEN [err |-> NoErr, calls |-> <<>>, published |-> <<>>, root |-> ar]
        ELSE IF pub # NoPublisher /\ pubFails
        THEN [err |-> [kind |-> "publisher", call |-> 0],
              calls |-> <<>>, published |-> <<events>>, root |-> ar]
        ELSE IF failAt > 0
        THEN [err |-> [kind |-> "handler", call |-> failAt],
              calls |-> SubSeq(inv, 1, failAt),
              published |-> IF pub # NoPublisher THEN <<events>> ELSE <<>>,
              root |-> ar]
        ELSE [err |-> NoErr, calls |-> inv,
              published |-> IF pub # NoPublisher THEN <<events>> ELSE <<>>,
              root |-> ClearDomainEvents(ar)]

\* DispatchEvents that keeps books: after a handler error the buffer holds
\* only the event whose handler failed and the events behind it
DispatchEventsDropHandled(ar, hs, pub, failAt, pubFails) ==
    LET events == DomainEvents(ar)
        inv == Matching(events, hs, 1)
    IN  IF Len(events) = 0
        THEN [err |-> NoErr, calls |-> <<>>, published |-> <<>>, root |-> ar]
        ELSE IF failAt > 0
        THEN [err |-> [kind |-> "handler", call |-> failAt],
              calls |-> SubSeq(inv, 1, failAt), published |-> <<>>,
              root |-> [ar EXCEPT !.domainEvents =
                           SubSeq(events, inv[failAt].index, Len(events))]]
        ELSE IF pub # NoPublisher /\ pubFails
        THEN [err |-> [kind |-> "publisher", call |-> 0],
              calls |-> inv, published |-> <<events>>, root |-> ar]
        ELSE [err |-> NoErr, calls |-> inv,
              published |-> IF pub # NoPublisher THEN <<events>> ELSE <<>>,
              root |-> ClearDomainEvents(ar)]

\* DispatchEvents on aggregate root ar.  failAt: the invocation whose Handle
\* returns an error (0: none); pubFails: Publish returns an error.
DispatchEvents(ar, hs, pub, failAt, pubFails) ==
    LET events == DomainEvents(ar)
        inv == Matching(events, hs, 1)
    IN  IF Len(events) = 0
        THEN [err |-> NoErr, calls |-> <<>>, published |-> <<>>, root |-> ar]
        ELSE IF failAt > 0
        THEN [err |-> [kind |-> "handler", call |-> failAt],
              calls |-> SubSeq(inv, 1, failAt), published |-> <<>>,
              root |-> ar]
        ELSE IF pub # NoPublisher /\ pubFails
        THEN [err |-> [kind |-> "publisher", call |-> 0],
              calls |-> inv, published |-> <<events>>, root |-> ar]
        ELSE [err |-> NoErr, calls |-> inv,
              published |-> IF pub # NoPublisher THEN <<events>> ELSE <<>>,
              root |-> ClearDomainEvents(ar)]

\* ------------------------------------------------------------------------
\* The users table and the callers of UserAggregateService
\* ------------------------------------------------------------------------
UserIds == 1..MaxUsers
Procs == {"p1", "p2"}

NoRow == [kind |-> "none"]

\* what the uniqueness lookups of CreateUser had to find
NoHeld == [email |-> FALSE, username |-> FALSE]

\* no invocation yet.  arg: the id handed in; before: the record of that id
\* when it was loaded; held: whether an active record had the email, the
\* username when the invocation began; after: the record as the write left
\* it; infra: a repository call returned an error that is not "not found"
\* and not a constraint violation; dispErr: what DispatchEvents returned;
\* stale: when Update was called the table no longer held the record that
\* had been loaded; clash: when Create was called an active record had the
\* email or the username
NoCall ==
    [op |-> "none", pc |-> "idle", user |-> NoAgg, write |-> "none",
     calls |-> <<>>, published |-> <<>>, result |-> "none",
     arg |-> 0, before |-> NoRow, after |-> NoRow, held |-> NoHeld,
     infra |-> FALSE, dispErr |-> NoErr, stale |-> FALSE, clash |-> FALSE]

InitSvcIdle ==
    /\ db = [id \in UserIds |-> NoRow]
    /\ proc = [p \in Procs |-> NoCall]
    /\ ops = 0
    /\ lost = {}
    /\ profiles = {}
    /\ orders = [id \in 1..MaxOrders |-> NoRow]

\* ------------------------------------------------------------------------
\* SpecAgg: one aggregate
\* ------------------------------------------------------------------------
InitAgg ==
    /\ now = 1
    /\ nextId = 1
    /\ agg = NoAgg
    /\ handlers = <<>>
    /\ publisher = NoPublisher
    /\ lastOp = "none"
    /\ prevOp = "none"
    /\ calledAt = NoTime
    /\ inp = NoInput
    /\ lastErr = NoReturn
    /\ pre = NoAgg
    /\ calls = <<>>
    /\ published = <<>>
    /\ InitSvcIdle

\* what every method call other than DispatchEvents records
Called(op) ==
    /\ lastOp' = op
    /\ calledAt' = now
    /\ inp' = NoInput
    /\ lastErr' = NoReturn
    /\ pre' = agg
    /\ calls' = <<>>
    /\ published' = <<>>

Tick ==
    /\ now < MaxTime
    /\ now' = now + 1
    /\ UNCHANGED <<nextId, agg, handlers, publisher, lastOp, calledAt, inp,
                   lastErr, pre, calls, published>>

RegisterHandler(h) ==
    /\ Len(handlers) < MaxHandlers
    /\ handlers' = Append(handlers, h)
    /\ Called("RegisterHandler")
    /\ UNCHANGED <<now, nextId, agg, publisher>>

CallNewUser(email, username) ==
    /\ nextId <= MaxAggs
    /\ agg' = NewUser(nextId, email, username, now)
    /\ nextId' = nextId + 1
    /\ Called("NewUser")
    /\ UNCHANGED <<now, handlers, publisher>>

CallNewProduct(in) ==
    /\ nextId <= MaxAggs
    /\ agg' = NewProduct(nextId, in, now)
    /\ nextId' = nextId + 1
    /\ Called("NewProduct")
    /\ UNCHANGED <<now, handlers, publisher>>

CallNewOrder(items) ==
    /\ nextId <= MaxAggs
    /\ agg' = NewOrder(nextId, items, now)
    /\ nextId' = nextId + 1
    /\ Called("NewOrder")
    /\ UNCHANGED <<now, handlers, publisher>>

\* user.Profile = NewProfile(user.ID, ...)
CallSetProfile ==
    /\ agg.kind = "User"
    /\ agg.profile = NoProfile
    /\ agg' = [agg EXCEPT !.profile = NewProfile(nextId, agg.id, now)]
    /\ nextId' = nextId + 1
    /\ Called("SetProfile")
    /\ UNCHANGED <<now, handlers, publisher>>

\* user.Profile.SoftDelete(): Profile embeds BaseEntity
CallProfileSoftDelete ==
    /\ agg.kind = "User"
    /\ agg.profile # NoProfile
    /\ agg' = [agg EXCEPT !.profile = SoftDelete(@, now)]
    /\ Called("ProfileSoftDelete")
    /\ UNCHANGED <<now, nextId, handlers, publisher>>

CallDelete ==
    /\ agg.kind \in {"User", "Product"}
    /\ Len(agg.domainEvents) < MaxEvents
    /\ agg' = Delete(agg, now)
    /\ Called("Delete")
    /\ UNCHANGED <<now, nextId, handlers, publisher>>

CallSoftDelete ==
    /\ agg # NoAgg
    /\ agg' = SoftDelete(agg, now)
    /\ Called("SoftDelete")
    /\ UNCHANGED <<now, nextId, handlers, publisher>>

CallRestore ==
    /\ agg # NoAgg
    /\ agg' = Restore(agg)
    /\ Called("Restore")
    /\ UNCHANGED <<now, nextId, handlers, publisher>>

CallCancel ==
    /\ agg.kind = "Order"
    /\ Len(agg.domainEvents) < MaxEvents
    /\ agg' = OrderCancel(agg, now)
    /\ Called("Cancel")
    /\ UNCHANGED <<now, nextId, handlers, publisher>>

CallAddDomainEvent(e) ==
    /\ agg # NoAgg
    /\ Len(agg.domainEvents) < MaxEvents
    /\ agg' = AddDomainEvent(agg, e)
    /\ lastOp' = "AddDomainEvent"
    /\ calledAt' = now
    /\ inp' = [failAt |-> 0, pubFails |-> FALSE, event |-> e]
    /\ lastErr' = NoReturn
    /\ pre' = agg
    /\ calls' = <<>>
    /\ published' = <<>>
    /\ UNCHANGED <<now, nextId, handlers, publisher>>

\* events := agg.DomainEvents()
CallDomainEvents ==
    /\ agg # NoAgg
    /\ lastOp' = "DomainEvents"
    /\ calledAt' = now
    /\ inp' = NoInput
    /\ lastErr' = [kind |-> "events", call |-> 0, events |-> DomainEvents(agg)]
    /\ pre' = agg
    /\ calls' = <<>>
    /\ published' = <<>>
    /\ UNCHANGED <<now, nextId, agg, handlers, publisher>>

CallClearDomainEvents ==
    /\ agg # NoAgg
    /\ agg' = ClearDomainEvents(agg)
    /\ Called("ClearDomainEvents")
    /\ UNCHANGED <<now, nextId, handlers, publisher>>

CallDispatchEvents(failAt, pubFails) ==
    /\ agg # NoAgg
    /\ failAt \in FailPoints(agg.domainEvents, handlers)
    /\ LET r == DispatchEvents(agg, handlers, publisher, failAt, pubFails)
       IN  /\ agg' = r.root
           /\ lastErr' = r.err
           /\ calls' = r.calls
           /\ published' = r.published
    /\ lastOp' = "DispatchEvents"
    /\ calledAt' = now
    /\ inp' = [failAt |-> failAt, pubFails |-> pubFails]
    /\ pre' = agg
    /\ UNCHANGED <<now, nextId, handlers, publisher>>

\* a method call on the aggregate
CallAgg ==
    \/ \E in \in UserInputs : CallNewUser(in.email, in.username)
    \/ \E in \in ProductInputs : CallNewProduct(in)
    \/ \E items \in OrderItemLists : CallNewOrder(items)
    \/ CallDelete
    \/ CallSoftDelete
    \/ CallRestore
    \/ CallCancel
    \/ \E e \in (IF agg = NoAgg THEN {} ELSE EventsOf(agg, now)) :
          CallAddDomainEvent(e)
    \/ CallDomainEvents
    \/ CallClearDomainEvents

\* SpecAgg remembers the call before the last one
NextAgg ==
    \/ Tick /\ UNCHANGED <<prevOp, svcVars>>
    \/ CallAgg /\ prevOp' = lastOp /\ UNCHANGED svcVars

SpecAgg == InitAgg /\ [][NextAgg]_vars

\* ------------------------------------------------------------------------
\* SpecProfile: one User and the Profile it owns
\* ------------------------------------------------------------------------
CallUserProfile ==
    \/ \E in \in UserInputs : agg = NoAgg /\ CallNewUser(in.email, in.username)
    \/ CallSetProfile
    \/ CallProfileSoftDelete
    \/ CallDelete
    \/ CallSoftDelete
    \/ CallRestore

NextProfile ==
    \/ Tick /\ UNCHANGED <<prevOp, svcVars>>
    \/ CallUserProfile /\ prevOp' = lastOp /\ UNCHANGED svcVars

SpecProfile == InitAgg /\ [][NextProfile]_vars

\* ------------------------------------------------------------------------
\* SpecDisp: the dispatcher, its handlers and publisher, and the methods
\* that fill the buffer of the one aggregate it is handed: its factory and
\* AddDomainEvent, which Delete and Cancel go through.  The clock stands
\* still and prevOp is not recorded.
\* ------------------------------------------------------------------------
InitDisp ==
    /\ now = 1
    /\ nextId = 1
    /\ agg = NoAgg
    /\ handlers = <<>>
    /\ publisher \in {NoPublisher, "publisher"}
    /\ lastOp = "none"
    /\ prevOp = "none"
    /\ calledAt = NoTime
    /\ inp = NoInput
    /\ lastErr = NoReturn
    /\ pre = NoAgg
    /\ calls = <<>>
    /\ published = <<>>
    /\ InitSvcIdle

\* the arguments SpecDisp constructs its aggregate from
DispUser == [email |-> "alice@example.com", username |-> "alice"]
DispProduct == [name |-> "book", sku |-> "SKU-1", price |-> 5]
DispItems == <<[price |-> 2, quantity |-> 1]>>

StepDisp ==
    \/ \E h \in HandlerKinds : RegisterHandler(h)
    \/ agg = NoAgg /\ CallNewUser(DispUser.email, DispUser.username)
    \/ agg = NoAgg /\ CallNewProduct(DispProduct)
    \/ agg = NoAgg /\ CallNewOrder(DispItems)
    \/ \E e \in (IF agg = NoAgg THEN {} ELSE EventsOf(agg, now)) :
          CallAddDomainEvent(e)
    \/ \E failAt \in 0..(MaxEvents * MaxHandlers),
          pubFails \in (IF publisher = NoPublisher THEN {FALSE} ELSE BOOLEAN) :
          CallDispatchEvents(failAt, pubFails)

NextDisp == StepDisp /\ UNCHANGED <<prevOp, svcVars>>

SpecDisp == InitDisp /\ [][NextDisp]_vars

\* SpecRetry: the dispatcher and a User, with the call before the last one
\* recorded, so that a DispatchEvents that follows a DispatchEvents can be
\* told
StepRetry ==
    \/ \E h \in HandlerKinds : RegisterHandler(h)
    \/ agg = NoAgg /\ CallNewUser(DispUser.email, DispUser.username)
    \/ \E e \in (IF agg = NoAgg THEN {} ELSE EventsOf(agg, now)) :
          CallAddDomainEvent(e)
    \/ \E failAt \in 0..(MaxEvents * MaxHandlers),
          pubFails \in (IF publisher = NoPublisher THEN {FALSE} ELSE BOOLEAN) :
          CallDispatchEvents(failAt, pubFails)

NextRetry == StepRetry /\ prevOp' = lastOp /\ UNCHANGED svcVars

SpecRetry == InitDisp /\ [][NextRetry]_vars

\* ------------------------------------------------------------------------
\* userRepository
\* ------------------------------------------------------------------------
\* a write that stores the event buffer with the columns
RowKeepsEvents(u) == u

\* what a write stores of a user: the columns, not the event buffer
Row(u) == [u EXCEPT !.domainEvents = <<>>]

\* the default scope of a query: rows that are not soft deleted
Visible(r) == r # NoRow /\ ~IsDeleted(r)

GetByID(d, id) == IF Visible(d[id]) THEN d[id] ELSE NoRow

GetByIDIncludeDeleted(d, id) == d[id]

GetByEmail(d, email) ==
    LET hits == {id \in DOMAIN d : Visible(d[id]) /\ d[id].email = email}
    IN  IF hits = {} THEN NoRow ELSE d[CHOOSE id \in hits : TRUE]

GetByUsername(d, username) ==
    LET hits == {id \in DOMAIN d : Visible(d[id]) /\ d[id].username = username}
    IN  IF hits = {} THEN NoRow ELSE d[CHOOSE id \in hits : TRUE]

\* unique indexes that cover the active rows only
UniqueViolationActiveOnly(d, u) ==
    \E id \in DOMAIN d :
        /\ d[id] # NoRow
        /\ \/ id = u.id
           \/ Visible(d[id]) /\ (d[id].email = u.email \/ d[id].username = u.username)

\* the primary key and the unique indexes on email and username
UniqueViolation(d, u) ==
    \E id \in DOMAIN d :
        /\ d[id] # NoRow
        /\ (id = u.id \/ d[id].email = u.email \/ d[id].username = u.username)

RepoCreate(d, u) == [d EXCEPT ![u.id] = Row(u)]

\* Save: writes every column of the row with that id; updated_at is set by
\* gorm (autoUpdateTime)
RepoUpdate(d, u, t) == [d EXCEPT ![u.id] = [Row(u) EXCEPT !.updatedAt = t]]

\* the scope of a query: the default one, Unscoped(), and Unscoped() with
\* Where("deleted_at IS NOT NULL")
InScope(r, scope) ==
    /\ r # NoRow
    /\ CASE scope = "default" -> Visible(r)
         [] scope = "unscoped" -> TRUE
         [] scope = "deleted" -> IsDeleted(r)

\* Find: the rows of d in the scope, in the order of their ids
RECURSIVE Select(_, _, _)
Select(d, scope, id) ==
    IF id \notin DOMAIN d THEN <<>>
    ELSE (IF InScope(d[id], scope) THEN <<d[id]>> ELSE <<>>)
         \o Select(d, scope, id + 1)

\* Offset(offset).Limit(limit)
Page(rows, offset, limit) ==
    SubSeq(rows, offset + 1,
           IF offset + limit < Len(rows) THEN offset + limit ELSE Len(rows))

\* List without the default scope
ListUnscoped(d, offset, limit) == Page(Select(d, "unscoped", 1), offset, limit)

List(d, offset, limit) == Page(Select(d, "default", 1), offset, limit)

ListIncludeDeleted(d, offset, limit) ==
    Page(Select(d, "unscoped", 1), offset, limit)

ListDeleted(d, offset, limit) == Page(Select(d, "deleted", 1), offset, limit)

\* ------------------------------------------------------------------------
\* UserAggregateService.  An invocation takes one step per repository or
\* dispatcher call; the code between two calls belongs to the step of the
\* call it leads to.
\* ------------------------------------------------------------------------
ErrEmailExists == "email already exists"
ErrUsernameExists == "username already exists"
ErrUserNotFound == "user not found"
ErrAlreadyDeleted == "user is already deleted"
ErrNotDeleted == "user is not deleted"
ErrDB == "database error"      \* any other error of a repository call

\* the invocation of p returns
Return(p, res) == [proc[p] EXCEPT !.pc = "idle", !.result = res]

\* the invocation call of p begins
Started(p, call) == [proc EXCEPT ![p] = call]

\* an active record of d has this email, this username
Held(d, email, username) ==
    [email |-> \E id \in DOMAIN d : Visible(d[id]) /\ d[id].email = email,
     username |-> \E id \in DOMAIN d :
                     Visible(d[id]) /\ d[id].username = username]

\* an active record of d has the email or the username of u
Clash(d, u) ==
    Held(d, u.email, u.username).email \/ Held(d, u.email, u.username).username

\* CreateUser, lines 38-45 up to GetByEmail.  found: what the lookup
\* answered, a row, NoRow with "user not found" or NoRow with another error
CreateUser_GetByEmail(p, email, username, lookupFails) ==
    /\ proc[p].pc = "idle"
    /\ nextId <= MaxUsers
    /\ LET user == NewUser(nextId, email, username, now)
           call == [NoCall EXCEPT !.op = "CreateUser", !.user = user,
                                  !.arg = nextId, !.infra = lookupFails,
                                  !.held = Held(db, email, username)]
           existingUser == IF lookupFails THEN NoRow ELSE GetByEmail(db, email)
       IN  proc' = Started(p,
                IF existingUser # NoRow
                THEN [call EXCEPT !.result = ErrEmailExists]
                ELSE [call EXCEPT !.pc = "GetByUsername"])
    /\ nextId' = nextId + 1
    /\ ops' = ops + 1
    /\ UNCHANGED db

\* validateUserBusinessRules, lines 133-140
CreateUser_GetByUsername(p, lookupFails) ==
    /\ proc[p].pc = "GetByUsername"
    /\ LET existingUser ==
               IF lookupFails THEN NoRow
               ELSE GetByUsername(db, proc[p].user.username)
       IN  proc' = [proc EXCEPT ![p] =
                [(IF existingUser # NoRow
                  THEN Return(p, ErrUsernameExists)
                  ELSE [proc[p] EXCEPT !.pc = "Create"])
                 EXCEPT !.infra = @ \/ lookupFails]]
    /\ UNCHANGED <<db, nextId, ops>>

\* CreateUser that logs the error of Create and goes on
CreateUser_CreateIgnoreError(p, fails) ==
    /\ proc[p].op = "CreateUser"
    /\ proc[p].pc = "Create"
    /\ IF fails \/ UniqueViolation(db, proc[p].user)
       THEN /\ proc' = [proc EXCEPT ![p] =
                    [proc[p] EXCEPT !.write = "failed", !.pc = "Dispatch",
                                    !.infra = @ \/ fails,
                                    !.clash = Clash(db, proc[p].user),
                                    !.after = db[proc[p].user.id]]]
            /\ db' = db
       ELSE /\ proc' = [proc EXCEPT ![p] =
                    [proc[p] EXCEPT !.write = "ok", !.pc = "Dispatch",
                                    !.clash = Clash(db, proc[p].user),
                                    !.after = RepoCreate(db, proc[p].user)[proc[p].user.id]]]
            /\ db' = RepoCreate(db, proc[p].user)
    /\ UNCHANGED <<nextId, ops>>

\* CreateUser, lines 47-50
CreateUser_Create(p, fails) ==
    /\ proc[p].op = "CreateUser"
    /\ proc[p].pc = "Create"
    /\ IF fails \/ UniqueViolation(db, proc[p].user)
       THEN /\ proc' = [proc EXCEPT ![p] =
                    [Return(p, ErrDB) EXCEPT !.write = "failed",
                                             !.infra = @ \/ fails,
                                             !.clash = Clash(db, proc[p].user),
                                             !.after = db[proc[p].user.id]]]
            /\ db' = db
       ELSE /\ proc' = [proc EXCEPT ![p] =
                    [proc[p] EXCEPT !.write = "ok", !.pc = "Dispatch",
                                    !.clash = Clash(db, proc[p].user),
                                    !.after = RepoCreate(db, proc[p].user)[proc[p].user.id]]]
            /\ db' = RepoCreate(db, proc[p].user)
    /\ UNCHANGED <<nextId, ops>>

\* an invocation that returns the error of DispatchEvents to its caller
Service_DispatchReturnsError(p, failAt, pubFails) ==
    /\ proc[p].pc = "Dispatch"
    /\ failAt \in FailPoints(proc[p].user.domainEvents, handlers)
    /\ LET r == DispatchEvents(proc[p].user, handlers, publisher, failAt,
                               pubFails)
       IN  proc' = [proc EXCEPT ![p] =
                [Return(p, IF r.err = NoErr THEN "ok" ELSE "dispatch error")
                 EXCEPT !.user = r.root, !.calls = r.calls,
                        !.published = r.published, !.dispErr = r.err]]
    /\ UNCHANGED <<db, nextId, ops>>

\* CreateUser, lines 52-59, and SoftDeleteUser, lines 83-88: the error of
\* DispatchEvents is logged and the invocation returns success
Service_Dispatch(p, failAt, pubFails) ==
    /\ proc[p].pc = "Dispatch"
    /\ failAt \in FailPoints(proc[p].user.domainEvents, handlers)
    /\ LET r == DispatchEvents(proc[p].user, handlers, publisher, failAt,
                               pubFails)
       IN  proc' = [proc EXCEPT ![p] =
                [Return(p, "ok") EXCEPT !.user = r.root, !.calls = r.calls,
                                        !.published = r.published,
                                        !.dispErr = r.err]]
    /\ UNCHANGED <<db, nextId, ops>>

\* SoftDeleteUser that takes a missing record for a finished deletion
SoftDeleteUser_GetByIDMissingOk(p, userID, getFails) ==
    /\ proc[p].pc = "idle"
    /\ LET call == [NoCall EXCEPT !.op = "SoftDeleteUser", !.arg = userID,
                                  !.before = db[userID], !.infra = getFails]
           user == IF getFails THEN NoRow ELSE GetByID(db, userID)
       IN  proc' = Started(p,
                IF getFails THEN [call EXCEPT !.result = ErrDB]
                ELSE IF user = NoRow THEN [call EXCEPT !.result = "ok"]
                ELSE IF IsDeleted(user)
                THEN [call EXCEPT !.user = user, !.result = ErrAlreadyDeleted]
                ELSE [call EXCEPT !.user = UserDelete(user, now),
                                  !.pc = "Update"])
    /\ ops' = ops + 1
    /\ UNCHANGED <<db, nextId>>

\* SoftDeleteUser, lines 63-77
SoftDeleteUser_GetByID(p, userID, getFails) ==
    /\ proc[p].pc = "idle"
    /\ LET call == [NoCall EXCEPT !.op = "SoftDeleteUser", !.arg = userID,
                                  !.before = db[userID], !.infra = getFails]
           user == IF getFails THEN NoRow ELSE GetByID(db, userID)
       IN  proc' = Started(p,
                IF getFails THEN [call EXCEPT !.result = ErrDB]
                ELSE IF user = NoRow THEN [call EXCEPT !.result = ErrUserNotFound]
                ELSE IF IsDeleted(user)
                THEN [call EXCEPT !.user = user, !.result = ErrAlreadyDeleted]
                ELSE [call EXCEPT !.user = UserDelete(user, now),
                                  !.pc = "Update"])
    /\ ops' = ops + 1
    /\ UNCHANGED <<db, nextId>>

\* RestoreUser without the check that the user is deleted
RestoreUser_GetByIDIncludeDeletedUnchecked(p, userID, getFails) ==
    /\ proc[p].pc = "idle"
    /\ LET call == [NoCall EXCEPT !.op = "RestoreUser", !.arg = userID,
                                  !.before = db[userID], !.infra = getFails]
           user == IF getFails THEN NoRow ELSE GetByIDIncludeDeleted(db, userID)
       IN  proc' = Started(p,
                IF getFails THEN [call EXCEPT !.result = ErrDB]
                ELSE IF user = NoRow THEN [call EXCEPT !.result = ErrUserNotFound]
                ELSE [call EXCEPT !.user = [Restore(user) EXCEPT !.isActive = TRUE],
                                  !.pc = "Update"])
    /\ ops' = ops + 1
    /\ UNCHANGED <<db, nextId>>

\* RestoreUser that clears DeletedAt and leaves IsActive as it is
RestoreUser_GetByIDIncludeDeletedKeepsInactive(p, userID, getFails) ==
    /\ proc[p].pc = "idle"
    /\ LET call == [NoCall EXCEPT !.op = "RestoreUser", !.arg = userID,
                                  !.before = db[userID], !.infra = getFails]
           user == IF getFails THEN NoRow ELSE GetByIDIncludeDeleted(db, userID)
       IN  proc' = Started(p,
                IF getFails THEN [call EXCEPT !.result = ErrDB]
                ELSE IF user = NoRow THEN [call EXCEPT !.result = ErrUserNotFound]
                ELSE IF ~IsDeleted(user)
                THEN [call EXCEPT !.user = user, !.result = ErrNotDeleted]
                ELSE [call EXCEPT !.user = Restore(user), !.pc = "Update"])
    /\ ops' = ops + 1
    /\ UNCHANGED <<db, nextId>>

\* RestoreUser, lines 92-105
RestoreUser_GetByIDIncludeDeleted(p, userID, getFails) ==
    /\ proc[p].pc = "idle"
    /\ LET call == [NoCall EXCEPT !.op = "RestoreUser", !.arg = userID,
                                  !.before = db[userID], !.infra = getFails]
           user == IF getFails THEN NoRow ELSE GetByIDIncludeDeleted(db, userID)
       IN  proc' = Started(p,
                IF getFails THEN [call EXCEPT !.result = ErrDB]
                ELSE IF user = NoRow THEN [call EXCEPT !.result = ErrUserNotFound]
                ELSE IF ~IsDeleted(user)
                THEN [call EXCEPT !.user = user, !.result = ErrNotDeleted]
                ELSE [call EXCEPT !.user = [Restore(user) EXCEPT !.isActive = TRUE],
                                  !.pc = "Update"])
    /\ ops' = ops + 1
    /\ UNCHANGED <<db, nextId>>

\* Update that is refused when the record was written since it was loaded
Service_UpdateIfUnchanged(p, fails) ==
    /\ proc[p].pc = "Update"
    /\ IF fails \/ db[proc[p].user.id] # proc[p].before
       THEN /\ proc' = [proc EXCEPT ![p] =
                    [Return(p, ErrDB) EXCEPT !.write = "failed",
                                             !.infra = @ \/ fails,
                                             !.stale = db[proc[p].user.id] # proc[p].before,
                                             !.after = db[proc[p].user.id]]]
            /\ db' = db
       ELSE /\ proc' = [proc EXCEPT ![p] =
                    [(IF proc[p].op = "RestoreUser"
                      THEN Return(p, "ok")
                      ELSE [proc[p] EXCEPT !.pc = "Dispatch"])
                     EXCEPT !.write = "ok",
                            !.after = RepoUpdate(db, proc[p].user, now)[proc[p].user.id]]]
            /\ db' = RepoUpdate(db, proc[p].user, now)
    /\ UNCHANGED <<nextId, ops>>

\* SoftDeleteUser, lines 78-81, and RestoreUser, lines 107-112
Service_Update(p, fails) ==
    /\ proc[p].pc = "Update"
    /\ IF fails
       THEN /\ proc' = [proc EXCEPT ![p] =
                    [Return(p, ErrDB) EXCEPT !.write = "failed", !.infra = TRUE,
                                             !.stale = db[proc[p].user.id] # proc[p].before,
                                             !.after = db[proc[p].user.id]]]
            /\ db' = db
       ELSE /\ proc' = [proc EXCEPT ![p] =
                    [(IF proc[p].op = "RestoreUser"
                      THEN Return(p, "ok")
                      ELSE [proc[p] EXCEPT !.pc = "Dispatch"])
                     EXCEPT !.write = "ok",
                            !.stale = db[proc[p].user.id] # proc[p].before,
                            !.after = RepoUpdate(db, proc[p].user, now)[proc[p].user.id]]]
            /\ db' = RepoUpdate(db, proc[p].user, now)
    /\ UNCHANGED <<nextId, ops>>

\* the dispatchers the service is constructed with
HandlerConfigs ==
    { <<>>,
      <<"UserCreatedEventHandler", "UserDeletedEventHandler">>,
      <<"AnyEventHandler", "UserDeletedEventHandler">> }

\* Spec: two callers; the service is constructed with a dispatcher without
\* handlers and publisher, or with one that has both
Init ==
    /\ now = 1
    /\ nextId = 1
    /\ agg = NoAgg
    /\ handlers \in {<<>>, <<"AnyEventHandler", "UserDeletedEventHandler">>}
    /\ publisher = (IF handlers = <<>> THEN NoPublisher ELSE "publisher")
    /\ lastOp = "none"
    /\ prevOp = "none"
    /\ calledAt = NoTime
    /\ inp = NoInput
    /\ lastErr = NoReturn
    /\ pre = NoAgg
    /\ calls = <<>>
    /\ published = <<>>
    /\ InitSvcIdle

\* a step of an invocation by one of the callers P, of which at most n are
\* begun
StepSvc(P, n) ==
    \/ \E p \in P, email \in Emails, username \in Usernames,
          lookupFails \in BOOLEAN :
          ops < n /\ CreateUser_GetByEmail(p, email, username, lookupFails)
    \/ \E p \in P, lookupFails \in BOOLEAN :
          CreateUser_GetByUsername(p, lookupFails)
    \/ \E p \in P, fails \in BOOLEAN : CreateUser_Create(p, fails)
    \/ \E p \in P, userID \in UserIds, getFails \in BOOLEAN :
          ops < n /\ SoftDeleteUser_GetByID(p, userID, getFails)
    \/ \E p \in P, userID \in UserIds, getFails \in BOOLEAN :
          ops < n /\ RestoreUser_GetByIDIncludeDeleted(p, userID, getFails)
    \/ \E p \in P, fails \in BOOLEAN : Service_Update(p, fails)
    \/ \E p \in P, failAt \in 0..(MaxEvents * MaxHandlers),
          pubFails \in (IF publisher = NoPublisher THEN {FALSE} ELSE BOOLEAN) :
          Service_Dispatch(p, failAt, pubFails)

Next ==
    StepSvc(Procs, MaxOps)
    /\ UNCHANGED <<now, agg, handlers, publisher, lastOp, prevOp,
                   calledAt, inp, lastErr, pre, calls, published, lost,
                   profiles, orders>>

Spec == Init /\ [][Next]_vars

\* SpecSeq: one caller, whose invocations run one after the other, and every
\* dispatcher of HandlerConfigs with and without a publisher
SeqProcs == {"p1"}

InitSeq ==
    /\ now = 1
    /\ nextId = 1
    /\ agg = NoAgg
    /\ handlers \in HandlerConfigs
    /\ publisher \in {NoPublisher, "publisher"}
    /\ lastOp = "none"
    /\ prevOp = "none"
    /\ calledAt = NoTime
    /\ inp = NoInput
    /\ lastErr = NoReturn
    /\ pre = NoAgg
    /\ calls = <<>>
    /\ published = <<>>
    /\ InitSvcIdle

NextSeq ==
    StepSvc(SeqProcs, MaxSeqOps)
    /\ UNCHANGED <<now, agg, handlers, publisher, lastOp, prevOp,
                   calledAt, inp, lastErr, pre, calls, published, lost,
                   profiles, orders>>

SpecSeq == InitSeq /\ [][NextSeq]_vars

\* the events in the buffer of the aggregate p holds
Buffered(p) ==
    IF proc[p].user = NoAgg THEN {}
    ELSE {proc[p].user.domainEvents[k] :
             k \in 1..Len(proc[p].user.domainEvents)}

\* The process dies after the repository write of an invocation and before
\* its DispatchEvents has returned.  The aggregate the invocation held is
\* gone with the process, the table is not.  Time passes until the service
\* runs again, with a dispatcher constructed as before.
Crash ==
    /\ now < MaxTime
    /\ \E p \in SeqProcs : proc[p].pc = "Dispatch"
    /\ lost' = lost \cup UNION {Buffered(p) : p \in SeqProcs}
    /\ proc' = [p \in Procs |->
                  IF proc[p].pc = "idle" THEN proc[p]
                  ELSE [proc[p] EXCEPT !.pc = "idle", !.result = "crashed",
                                       !.user = NoAgg]]
    /\ now' = now + 1
    /\ UNCHANGED <<db, nextId, ops, profiles, orders>>

\* SpecCrash: SpecSeq and the crash
NextCrash ==
    \/ StepSvc(SeqProcs, MaxSeqOps)
          /\ UNCHANGED <<now, agg, handlers, publisher, lastOp, prevOp,
                         calledAt, inp, lastErr, pre, calls, published, lost,
                   profiles, orders>>
    \/ Crash
          /\ UNCHANGED <<agg, handlers, publisher, lastOp, prevOp,
                         calledAt, inp, lastErr, pre, calls, published>>

SpecCrash == InitSeq /\ [][NextCrash]_vars

\* ------------------------------------------------------------------------
\* ProductDomainService.ValidateProduct and OrderStatus.IsValid
\* ------------------------------------------------------------------------
\* ValidateProduct that looks at the name first
ValidateProductNameFirst(product) ==
    IF product.name = "" THEN "product name is required"
    ELSE IF product.price <= 0 THEN "product price must be greater than zero"
    ELSE IF product.sku = "" THEN "product SKU is required"
    ELSE "ok"

\* the error returned, "ok" for nil
ValidateProduct(product) ==
    IF product.price <= 0 THEN "product price must be greater than zero"
    ELSE IF product.name = "" THEN "product name is required"
    ELSE IF product.sku = "" THEN "product SKU is required"
    ELSE "ok"

\* IsValid that takes the zero value for a status
IsValidOrEmpty(os) ==
    os \in {"", OrderStatusPending, OrderStatusConfirmed, OrderStatusShipped,
            OrderStatusDelivered, OrderStatusCancelled}

IsValid(os) ==
    os \in {OrderStatusPending, OrderStatusConfirmed, OrderStatusShipped,
            OrderStatusDelivered, OrderStatusCancelled}

\* the products and the status values the two functions are applied to
ProductValues ==
    {NewProduct(1, [name |-> n, sku |-> k, price |-> c], 1) :
        n \in {"", " ", "book", "pen"}, k \in {"", "SKU-1", "SKU-2"},
        c \in (-1)..MaxPrice}

StatusValues ==
    {[kind |-> "OrderStatus", status |-> os] :
        os \in {OrderStatusPending, OrderStatusConfirmed, OrderStatusShipped,
                OrderStatusDelivered, OrderStatusCancelled,
                "", "invalid", "PENDING", "refunded"}}

\* SpecValid: a product or a status value, and the function applied to it
InitValid ==
    /\ now = 1
    /\ nextId = 2
    /\ \/ agg \in ProductValues
       \/ agg \in StatusValues
    /\ handlers = <<>>
    /\ publisher = NoPublisher
    /\ lastOp = "none"
    /\ prevOp = "none"
    /\ calledAt = NoTime
    /\ inp = NoInput
    /\ lastErr = NoReturn
    /\ pre = NoAgg
    /\ calls = <<>>
    /\ published = <<>>
    /\ InitSvcIdle

\* err := productDomainService.ValidateProduct(product)
CallValidateProduct ==
    /\ agg.kind = "Product"
    /\ lastOp' = "ValidateProduct"
    /\ calledAt' = now
    /\ inp' = NoInput
    /\ lastErr' = [kind |-> "error", call |-> 0, value |-> ValidateProduct(agg)]
    /\ pre' = agg
    /\ calls' = <<>>
    /\ published' = <<>>
    /\ UNCHANGED <<now, nextId, agg, handlers, publisher>>

\* valid := status.IsValid()
CallIsValid ==
    /\ agg.kind = "OrderStatus"
    /\ lastOp' = "IsValid"
    /\ calledAt' = now
    /\ inp' = NoInput
    /\ lastErr' = [kind |-> "bool", call |-> 0, value |-> IsValid(agg.status)]
    /\ pre' = agg
    /\ calls' = <<>>
    /\ published' = <<>>
    /\ UNCHANGED <<now, nextId, agg, handlers, publisher>>

NextValid ==
    \/ CallValidateProduct /\ UNCHANGED <<prevOp, svcVars>>
    \/ CallIsValid /\ UNCHANGED <<prevOp, svcVars>>

SpecValid == InitValid /\ [][NextValid]_vars

\* ------------------------------------------------------------------------
\* UserDomainService
\* ------------------------------------------------------------------------
ErrUserAlreadyExists == "user already exists"

\* a user id that is not the id of the user handed in
OtherUserID == 0

\* the profile argument: nil, a profile made for the user handed in, a
\* profile made for another user id
ProfileArguments == {"nil", "of the user", "of another"}

\* userRepo.Delete: the row is removed, not marked
RepoDelete(d, id) == [d EXCEPT ![id] = NoRow]

\* no invocation of CreateUserWithProfile yet.  profile: the profile as it
\* is handed to profileRepo.Create; given: the profile argument; found: what
\* GetByEmail returned; trace: the repository calls made, in order
NoDomCall ==
    [op |-> "CreateUserWithProfile", pc |-> "idle", user |-> NoAgg,
     profile |-> NoProfile, given |-> NoProfile, found |-> NoRow,
     result |-> "none", arg |-> 0, held |-> NoHeld, infra |-> FALSE,
     write |-> "none", profileWrite |-> "none", trace |-> <<>>]

\* CreateUserWithProfile, lines 266-271.  The error of GetByEmail is dropped
CreateUserWithProfile_GetByEmail(p, email, username, given, lookupFails) ==
    /\ proc[p].pc = "idle"
    /\ nextId <= MaxUsers
    /\ LET user == NewUser(nextId, email, username, now)
           profile == IF given = "nil" THEN NoProfile
                      ELSE NewProfile(nextId + MaxUsers,
                                      IF given = "of the user" THEN nextId
                                      ELSE OtherUserID, now)
           existingUser == IF lookupFails THEN NoRow ELSE GetByEmail(db, email)
           call == [NoDomCall EXCEPT !.user = user, !.arg = nextId,
                                     !.profile = profile, !.given = profile,
                                     !.found = existingUser,
                                     !.infra = lookupFails,
                                     !.held = Held(db, email, username),
                                     !.trace = <<"userRepo.GetByEmail">>]
       IN  proc' = Started(p,
                IF existingUser # NoRow
                THEN [call EXCEPT !.result = ErrUserAlreadyExists]
                ELSE [call EXCEPT !.pc = "Create"])
    /\ nextId' = nextId + 1
    /\ ops' = ops + 1
    /\ UNCHANGED <<db, profiles>>

\* CreateUserWithProfile, lines 273-276, and the return of line 288 when no
\* profile is given
CreateUserWithProfile_Create(p, fails) ==
    /\ proc[p].op = "CreateUserWithProfile"
    /\ proc[p].pc = "Create"
    /\ LET called == [proc[p] EXCEPT !.trace = Append(@, "userRepo.Create")]
       IN  IF fails \/ UniqueViolation(db, proc[p].user)
           THEN /\ proc' = [proc EXCEPT ![p] =
                        [called EXCEPT !.pc = "idle", !.result = ErrDB,
                                       !.write = "failed",
                                       !.infra = @ \/ fails]]
                /\ db' = db
           ELSE /\ proc' = [proc EXCEPT ![p] =
                        IF proc[p].profile = NoProfile
                        THEN [called EXCEPT !.pc = "idle", !.result = "ok",
                                            !.write = "ok"]
                        ELSE [called EXCEPT !.pc = "ProfileCreate",
                                            !.write = "ok"]]
                /\ db' = RepoCreate(db, proc[p].user)
    /\ UNCHANGED <<nextId, ops, profiles>>

\* CreateUserWithProfile that hands the profile on as it was given
CreateUserWithProfile_ProfileCreateAsGiven(p, fails) ==
    /\ proc[p].op = "CreateUserWithProfile"
    /\ proc[p].pc = "ProfileCreate"
    /\ LET called == [proc[p] EXCEPT
                         !.trace = Append(@, "profileRepo.Create")]
       IN  IF fails
           THEN /\ proc' = [proc EXCEPT ![p] =
                        [called EXCEPT !.pc = "Rollback",
                                       !.profileWrite = "failed",
                                       !.infra = TRUE]]
                /\ profiles' = profiles
           ELSE /\ proc' = [proc EXCEPT ![p] =
                        [called EXCEPT !.pc = "idle", !.result = "ok",
                                       !.profileWrite = "ok"]]
                /\ profiles' = profiles \cup {called.profile}
    /\ UNCHANGED <<db, nextId, ops>>

\* CreateUserWithProfile, lines 278-281 and 288
CreateUserWithProfile_ProfileCreate(p, fails) ==
    /\ proc[p].op = "CreateUserWithProfile"
    /\ proc[p].pc = "ProfileCreate"
    /\ LET called == [proc[p] EXCEPT
                         !.profile.userID = proc[p].user.id,
                         !.trace = Append(@, "profileRepo.Create")]
       IN  IF fails
           THEN /\ proc' = [proc EXCEPT ![p] =
                        [called EXCEPT !.pc = "Rollback",
                                       !.profileWrite = "failed",
                                       !.infra = TRUE]]
                /\ profiles' = profiles
           ELSE /\ proc' = [proc EXCEPT ![p] =
                        [called EXCEPT !.pc = "idle", !.result = "ok",
                                       !.profileWrite = "ok"]]
                /\ profiles' = profiles \cup {called.profile}
    /\ UNCHANGED <<db, nextId, ops>>

\* CreateUserWithProfile, lines 282-284: the error of Delete is dropped and
\* the error of profileRepo.Create returned
CreateUserWithProfile_Rollback(p, fails) ==
    /\ proc[p].op = "CreateUserWithProfile"
    /\ proc[p].pc = "Rollback"
    /\ proc' = [proc EXCEPT ![p] =
                  [proc[p] EXCEPT !.pc = "idle", !.result = ErrDB,
                                  !.trace = Append(@, "userRepo.Delete")]]
    /\ db' = IF fails THEN db ELSE RepoDelete(db, proc[p].user.id)
    /\ UNCHANGED <<nextId, ops, profiles>>

\* a step of an invocation of UserDomainService by one of the callers P, of
\* which at most n are begun
StepDom(P, n) ==
    \/ \E p \in P, email \in Emails, username \in Usernames,
          given \in ProfileArguments, lookupFails \in BOOLEAN :
          /\ ops < n
          /\ CreateUserWithProfile_GetByEmail(p, email, username, given,
                                              lookupFails)
    \/ \E p \in P, fails \in BOOLEAN : CreateUserWithProfile_Create(p, fails)
    \/ \E p \in P, fails \in BOOLEAN :
          CreateUserWithProfile_ProfileCreate(p, fails)
    \/ \E p \in P, fails \in BOOLEAN :
          CreateUserWithProfile_Rollback(p, fails)

\* SpecDom: one caller of UserDomainService
NextDom ==
    StepDom(SeqProcs, MaxSeqOps)
    /\ UNCHANGED <<now, agg, handlers, publisher, lastOp, prevOp,
                   calledAt, inp, lastErr, pre, calls, published, lost,
                   orders>>

SpecDom == InitAgg /\ [][NextDom]_vars

\* ------------------------------------------------------------------------
\* OrderDomainService.  The products table is not written by it: it holds
\* product 1 and product 2, and no product 3.
\* ------------------------------------------------------------------------
ErrProductNotFound == "product not found"
ErrOrderNotFound == "order not found"
ErrInvalidOrderStatus == "invalid order status"
ErrNoItems == "order must have at least one item"
ErrQuantity == "item quantity must be greater than zero"
ErrTerminalStatus == "cannot change status of delivered or cancelled orders"

OrderIds == 1..MaxOrders

\* Product.Price of the products in the table, by product id
ProductPrice == [id \in {1, 2} |-> id + 1]

\* the items of the orders CreateOrder is called with.  price 0 is what
\* OrderCommandHandler.Handle passes to NewOrderItem
OrderRequests ==
    { <<>>,
      <<[productID |-> 1, quantity |-> 1, price |-> 0]>>,
      <<[productID |-> 1, quantity |-> 2, price |-> 0],
        [productID |-> 2, quantity |-> 1, price |-> 0]>>,
      <<[productID |-> 1, quantity |-> 1, price |-> 2]>>,
      <<[productID |-> 2, quantity |-> 1, price |-> 5]>>,
      <<[productID |-> 1, quantity |-> 0, price |-> 0]>>,
      <<[productID |-> 3, quantity |-> 1, price |-> 0]>>,
      <<[productID |-> 3, quantity |-> 0, price |-> 0]>>,
      <<[productID |-> 1, quantity |-> 1, price |-> 0],
        [productID |-> 2, quantity |-> -1, price |-> 0]>> }

\* the status values UpdateOrderStatus is called with
StatusRequests ==
    {OrderStatusPending, OrderStatusConfirmed, OrderStatusShipped,
     OrderStatusDelivered, OrderStatusCancelled, "invalid"}

\* no invocation yet.  order: the order as CreateOrder leaves it; status:
\* the status asked for; seen: the status of the order that was loaded
NoOrderCall ==
    [op |-> "none", pc |-> "idle", arg |-> 0, order |-> NoAgg,
     status |-> "", seen |-> "", result |-> "none", write |-> "none",
     infra |-> FALSE]

\* CreateOrder, lines 353-368: the loop over the items from item k on.  The
\* loop variable is a copy of the item, so the price it is given is not
\* stored in order.Items; total is the sum so far
RECURSIVE ItemLoop(_, _, _, _)
ItemLoop(items, k, total, lookupFails) ==
    IF k > Len(items) THEN [err |-> "ok", total |-> total]
    ELSE IF lookupFails \/ items[k].productID \notin DOMAIN ProductPrice
    THEN [err |-> ErrProductNotFound, total |-> total]
    ELSE IF items[k].quantity <= 0
    THEN [err |-> ErrQuantity, total |-> total]
    ELSE ItemLoop(items, k + 1,
                  total + ProductPrice[items[k].productID] * items[k].quantity,
                  lookupFails)

\* OrderCommandHandler.Handle, lines 77-87, and CreateOrder, lines 347-374.
\* The products table does not change, so the lookups and the one write are
\* taken as one step
CreateOrder(p, items, lookupFails, createFails) ==
    /\ proc[p].pc = "idle"
    /\ nextId <= MaxOrders
    /\ LET order == NewOrder(nextId, items, now)
           loop == IF Len(order.items) = 0
                   THEN [err |-> ErrNoItems, total |-> 0]
                   ELSE ItemLoop(order.items, 1, 0, lookupFails)
           priced == [order EXCEPT !.totalPrice = loop.total,
                                   !.status = OrderStatusPending]
           call == [NoOrderCall EXCEPT !.op = "CreateOrder", !.arg = nextId]
       IN  IF loop.err # "ok"
           THEN /\ proc' = Started(p, [call EXCEPT !.order = order,
                                                    !.result = loop.err,
                                                    !.infra = lookupFails])
                /\ orders' = orders
           ELSE IF createFails
           THEN /\ proc' = Started(p, [call EXCEPT !.order = priced,
                                                    !.result = ErrDB,
                                                    !.write = "failed",
                                                    !.infra = TRUE])
                /\ orders' = orders
           ELSE /\ proc' = Started(p, [call EXCEPT !.order = priced,
                                                    !.result = "ok",
                                                    !.write = "ok"])
                /\ orders' = [orders EXCEPT ![nextId] = Row(priced)]
    /\ nextId' = nextId + 1
    /\ ops' = ops + 1

\* UpdateOrderStatus, lines 377-390
UpdateOrderStatus_GetByID(p, orderID, status, getFails) ==
    /\ proc[p].pc = "idle"
    /\ LET call == [NoOrderCall EXCEPT !.op = "UpdateOrderStatus",
                                       !.arg = orderID, !.status = status]
       IN  proc' = Started(p,
                IF ~IsValid(status)
                THEN [call EXCEPT !.result = ErrInvalidOrderStatus]
                ELSE IF getFails \/ orders[orderID] = NoRow
                THEN [call EXCEPT !.result = ErrOrderNotFound,
                                  !.infra = getFails]
                ELSE IF orders[orderID].status \in
                           {OrderStatusDelivered, OrderStatusCancelled}
                THEN [call EXCEPT !.seen = orders[orderID].status,
                                  !.result = ErrTerminalStatus]
                ELSE [call EXCEPT !.seen = orders[orderID].status,
                                  !.pc = "UpdateStatus"])
    /\ ops' = ops + 1
    /\ UNCHANGED <<orders, nextId>>

\* UpdateOrderStatus, line 392, and OrderGormRepository.UpdateStatus
UpdateOrderStatus_UpdateStatus(p, fails) ==
    /\ proc[p].op = "UpdateOrderStatus"
    /\ proc[p].pc = "UpdateStatus"
    /\ IF fails
       THEN /\ proc' = [proc EXCEPT ![p] =
                    [proc[p] EXCEPT !.pc = "idle", !.result = ErrDB,
                                    !.write = "failed", !.infra = TRUE]]
            /\ orders' = orders
       ELSE /\ proc' = [proc EXCEPT ![p] =
                    [proc[p] EXCEPT !.pc = "idle", !.result = "ok",
                                    !.write = "ok"]]
            /\ orders' = [orders EXCEPT ![proc[p].arg].status = proc[p].status,
                                        ![proc[p].arg].updatedAt = now]
    /\ UNCHANGED <<nextId, ops>>

\* a step of an invocation of OrderDomainService by one of the callers P, of
\* which at most n are begun
StepOrder(P, n) ==
    \/ \E p \in P, items \in OrderRequests, lookupFails \in BOOLEAN,
          createFails \in BOOLEAN :
          ops < n /\ CreateOrder(p, items, lookupFails, createFails)
    \/ \E p \in P, orderID \in OrderIds, status \in StatusRequests,
          getFails \in BOOLEAN :
          ops < n /\ UpdateOrderStatus_GetByID(p, orderID, status, getFails)
    \/ \E p \in P, fails \in BOOLEAN : UpdateOrderStatus_UpdateStatus(p, fails)

\* SpecOrder: two callers of OrderDomainService
NextOrder ==
    StepOrder(Procs, MaxOps)
    /\ UNCHANGED <<now, agg, handlers, publisher, lastOp, prevOp,
                   calledAt, inp, lastErr, pre, calls, published, lost,
                   db, profiles>>

SpecOrder == InitAgg /\ [][NextOrder]_vars

\* ========================================================================
\* Properties of the entities (SpecAgg) and of the dispatcher (SpecDisp)
\* ========================================================================
AlreadyDeletedError == [kind |-> "AlreadyDeletedError", call |-> 0]
NotDeletedError == [kind |-> "NotDeletedError", call |-> 0]

CreatedType(a) ==
    CASE a.kind = "User" -> "UserCreated"
      [] a.kind = "Product" -> "ProductCreated"
      [] a.kind = "Order" -> "OrderCreated"

\* the aggregate type a factory constructs
FactoryKind(op) ==
    CASE op = "NewUser" -> "User"
      [] op = "NewProduct" -> "Product"
      [] op = "NewOrder" -> "Order"

DeletedType(a) == IF a.kind = "User" THEN "UserDeleted" ELSE "ProductDeleted"

\* the number of events of type ty in buffer evs
RECURSIVE CountType(_, _)
CountType(evs, ty) ==
    IF evs = <<>> THEN 0
    ELSE (IF Head(evs).type = ty THEN 1 ELSE 0) + CountType(Tail(evs), ty)

\* the last DispatchEvents ran into a Handle that returned an error
HandlerFailed == lastOp = "DispatchEvents" /\ inp.failAt > 0

\* C1: when a handler returns an error while a batch of N > 1 events is
\* dispatched, DispatchEvents returns that error, invokes no handler after
\* the failing one, leaves all N events in the buffer in their order and
\* never calls Publish.
C1_HandlerErrorAborts ==
    (HandlerFailed /\ Len(pre.domainEvents) > 1) =>
        /\ lastErr = [kind |-> "handler", call |-> inp.failAt]
        /\ Len(calls) = inp.failAt
        /\ agg.domainEvents = pre.domainEvents
        /\ published = <<>>

\* a batch of two events, the second Handle invocation fails, a publisher
\* is configured
C1_Witness ==
    /\ HandlerFailed
    /\ Len(pre.domainEvents) = 2
    /\ inp.failAt = 2
    /\ publisher # NoPublisher

\* C2: DispatchEvents clears the buffer if and only if it returns nil:
\* after a nil return the buffer is empty, after an error return (handler
\* or publisher) the buffer is what it was before the call.
C2_ClearedIffSuccess ==
    lastOp = "DispatchEvents" =>
        /\ (lastErr = NoErr => agg.domainEvents = <<>>)
        /\ (lastErr # NoErr => agg.domainEvents = pre.domainEvents)
        /\ (pre.domainEvents # <<>> =>
               (agg.domainEvents = <<>> <=> lastErr = NoErr))

\* Publish returned an error for a non-empty batch
C2_Witness ==
    /\ lastOp = "DispatchEvents"
    /\ lastErr.kind = "publisher"
    /\ Len(pre.domainEvents) = 2
    /\ calls # <<>>

\* C10: DispatchEvents on an empty buffer returns nil and calls neither a
\* handler nor the publisher, whatever is registered.
C10_EmptyBufferNoOp ==
    (lastOp = "DispatchEvents" /\ pre.domainEvents = <<>>) =>
        /\ lastErr = NoErr
        /\ calls = <<>>
        /\ published = <<>>
        /\ agg = pre

\* an empty buffer dispatched with two handlers and a publisher whose
\* Publish would have failed
C10_Witness ==
    /\ lastOp = "DispatchEvents"
    /\ pre.domainEvents = <<>>
    /\ Len(handlers) = 2
    /\ \E j \in 1..Len(handlers) : handlers[j] = "AnyEventHandler"
    /\ publisher # NoPublisher
    /\ inp.pubFails

\* the place of a Handle invocation in the order "events in buffer order,
\* for each event the handlers in registration order"
CallPos(c) == (c.index - 1) * Len(handlers) + c.handler

\* the (event, handler) pairs of the last DispatchEvents whose CanHandle is
\* true
MatchingPairs ==
    {ij \in (1..Len(pre.domainEvents)) \X (1..Len(handlers)) :
        CanHandle(handlers[ij[2]], pre.domainEvents[ij[1]])}

\* C11: the Handle invocations of a DispatchEvents run through the buffer
\* in append order and, for each event, through the handlers in
\* registration order; Handle is invoked on exactly the pairs whose
\* CanHandle is true (up to the invocation that failed, if one did), so a
\* handler that matches no event of the batch is never invoked and the run
\* fails only if an invoked Handle or Publish failed.
C11_DeliveryOrder ==
    lastOp = "DispatchEvents" =>
        /\ \A k \in 1..Len(calls) :
              /\ <<calls[k].index, calls[k].handler>> \in MatchingPairs
              /\ calls[k].event = pre.domainEvents[calls[k].index]
        /\ \A k \in 1..(Len(calls) - 1) : CallPos(calls[k]) < CallPos(calls[k + 1])
        /\ \A ij \in MatchingPairs :
              (lastErr.kind = "handler" =>
                  (ij[1] - 1) * Len(handlers) + ij[2] <= CallPos(calls[Len(calls)]))
              => \E k \in 1..Len(calls) :
                    calls[k].index = ij[1] /\ calls[k].handler = ij[2]
        /\ lastErr.kind = "handler" =>
              /\ calls # <<>>
              /\ MayFail(handlers[calls[Len(calls)].handler])
        /\ (inp.failAt = 0 /\ ~inp.pubFails) => lastErr = NoErr

\* two different events went to two handlers, one of which matches only the
\* second event, and the first handler was invoked after the second one
C11_Witness ==
    /\ lastOp = "DispatchEvents"
    /\ lastErr = NoErr
    /\ Len(calls) = 3
    /\ pre.domainEvents[1].type # pre.domainEvents[2].type
    /\ calls[1].handler = 2
    /\ calls[2].handler = 1
    /\ calls[1].index = 1
    /\ calls[3].index = 2

\* C12: with a publisher configured, a DispatchEvents on a non-empty
\* buffer calls Publish at most once, exactly when no Handle failed, after
\* every matching handler was invoked for every event, with the whole
\* buffer in append order; when Publish fails DispatchEvents returns that
\* error and the buffer stays as it was.  Without a publisher nothing is
\* published.
C12_PublishOnceFullBatch ==
    (lastOp = "DispatchEvents" /\ pre.domainEvents # <<>>) =>
        /\ Len(published) <= 1
        /\ publisher = NoPublisher => published = <<>>
        /\ publisher # NoPublisher =>
              /\ (published # <<>> <=> lastErr.kind # "handler")
              /\ published # <<>> =>
                    /\ published[1] = pre.domainEvents
                    /\ \A ij \in MatchingPairs :
                          \E k \in 1..Len(calls) :
                             calls[k].index = ij[1] /\ calls[k].handler = ij[2]
              /\ (inp.failAt = 0 /\ inp.pubFails) =>
                    /\ lastErr = [kind |-> "publisher", call |-> 0]
                    /\ agg.domainEvents = pre.domainEvents
              /\ lastErr.kind = "publisher" => inp.pubFails

\* a batch of two events, the first of which no handler matched, went to
\* the publisher after the one matching Handle returned nil
C12_Witness ==
    /\ lastOp = "DispatchEvents"
    /\ publisher # NoPublisher
    /\ lastErr = NoErr
    /\ Len(pre.domainEvents) = 2
    /\ handlers # <<>>
    /\ Len(calls) = 1
    /\ calls[1].index = 2
    /\ published = <<pre.domainEvents>>

C7_FactoryOneCreatedEvent ==
    lastOp \in {"NewUser", "NewProduct", "NewOrder"} =>
        /\ ~IsDeleted(agg)
        /\ Len(agg.domainEvents) = 1
        /\ agg.domainEvents[1] = Event(CreatedType(agg), agg.id, calledAt)
        /\ agg.kind = FactoryKind(lastOp)

\* an order was constructed
C7_Witness ==
    /\ lastOp = "NewOrder"
    /\ agg.kind = "Order"
    /\ agg.items # <<>>

\* C8: Delete makes the aggregate deleted and a Restore right after it
\* makes it not deleted again, in every delete/restore cycle.
C8_DeleteRestoreRoundTrip ==
    /\ (lastOp = "Delete" => IsDeleted(agg))
    /\ ((lastOp = "Restore" /\ prevOp = "Delete") =>
            /\ IsDeleted(pre)
            /\ ~IsDeleted(agg))

\* a Restore right after the second Delete of a user
C8_Witness ==
    /\ lastOp = "Restore"
    /\ prevOp = "Delete"
    /\ agg.kind = "User"
    /\ ~IsDeleted(agg)
    /\ CountType(agg.domainEvents, "UserDeleted") = 2

\* C9: Delete on an active User or Product makes it deleted, sets IsActive
\* to false and appends exactly one Deleted event at the tail of the
\* buffer, the events already buffered staying in place.
C9_DeleteActive ==
    (lastOp = "Delete" /\ ~IsDeleted(pre)) =>
        /\ IsDeleted(agg)
        /\ agg.isActive = FALSE
        /\ agg.domainEvents =
              Append(pre.domainEvents, Event(DeletedType(agg), agg.id, calledAt))
        /\ agg = [pre EXCEPT !.deletedAt = calledAt, !.isActive = FALSE,
                             !.domainEvents = agg.domainEvents]

\* Delete on an active product whose Created event is still buffered
C9_Witness ==
    /\ lastOp = "Delete"
    /\ ~IsDeleted(pre)
    /\ pre.isActive
    /\ agg.kind = "Product"
    /\ Len(pre.domainEvents) = 1

\* ========================================================================
\* Properties of UserAggregateService (Spec)
\* ========================================================================
\* the events the invocation of p handed to a handler or to the publisher
Dispatched(p) ==
    {proc[p].calls[k].event : k \in 1..Len(proc[p].calls)}
    \cup UNION {{b[k] : k \in 1..Len(b)} :
                  b \in {proc[p].published[n] : n \in 1..Len(proc[p].published)}}

\* C3: in CreateUser and SoftDeleteUser a handler or the publisher is
\* invoked only for events of the aggregate of that invocation and only
\* after its repository write (Create or Update) returned success; when the
\* write fails the invocation returns the error and has dispatched nothing.
C3_PersistBeforeDispatch ==
    \A p \in Procs :
        /\ proc[p].pc = "Dispatch" => proc[p].write = "ok"
        /\ Dispatched(p) # {} =>
              /\ proc[p].op \in {"CreateUser", "SoftDeleteUser"}
              /\ proc[p].write = "ok"
              /\ db[proc[p].user.id] # NoRow
              /\ \A e \in Dispatched(p) : e.id = proc[p].user.id
        /\ proc[p].write = "failed" =>
              /\ proc[p].pc = "idle"
              /\ proc[p].result = ErrDB
              /\ Dispatched(p) = {}

\* one invocation has dispatched the UserDeleted event after its Update,
\* another has returned the error of a failed Create
C3_Witness ==
    \E p, q \in Procs :
        /\ proc[p].op = "SoftDeleteUser"
        /\ proc[p].write = "ok"
        /\ proc[p].calls # <<>>
        /\ proc[p].published # <<>>
        /\ proc[q].op = "CreateUser"
        /\ proc[q].write = "failed"
        /\ proc[q].result = ErrDB

\* the invocation of p is a CreateUser that has returned and in which every
\* repository call answered
CreateUserAnswered(p) ==
    /\ proc[p].op = "CreateUser"
    /\ proc[p].pc = "idle"
    /\ ~proc[p].infra

\* the Handle invocations and the batches a successful dispatch of the one
\* event e makes
DeliveredOnce(p, e) ==
    /\ \A j \in 1..Len(handlers) :
          CanHandle(handlers[j], e) =>
             Cardinality({k \in 1..Len(proc[p].calls) :
                             proc[p].calls[k].handler = j
                             /\ proc[p].calls[k].event = e}) = 1
    /\ \A k \in 1..Len(proc[p].calls) : proc[p].calls[k].event = e
    /\ proc[p].published =
          (IF publisher = NoPublisher THEN <<>> ELSE << <<e>> >>)

\* C13 as claimed: a CreateUser whose repository calls answer fails with
\* "email already exists" or "username already exists", persisting and
\* dispatching nothing, if an active persisted user has that email or that
\* username when it begins; otherwise it persists the aggregate, hands its
\* UserCreated event to the dispatcher and returns the user.
C13_DuplicateOrPersisted ==
    \A p \in SeqProcs :
        CreateUserAnswered(p) =>
            IF proc[p].held.email \/ proc[p].held.username
            THEN /\ proc[p].result \in {ErrEmailExists, ErrUsernameExists}
                 /\ proc[p].write = "none"
                 /\ Dispatched(p) = {}
                 /\ db[proc[p].arg] = NoRow
            ELSE /\ proc[p].result = "ok"
                 /\ proc[p].write = "ok"
                 /\ db[proc[p].arg] = Row(proc[p].user)
                 /\ ~IsDeleted(db[proc[p].arg])
                 /\ proc[p].dispErr = NoErr =>
                       /\ DeliveredOnce(p, Event("UserCreated", proc[p].arg, now))
                       /\ proc[p].user.domainEvents = <<>>

C15_NotFoundNoEffect ==
    \A p \in SeqProcs :
        ( /\ proc[p].op \in {"SoftDeleteUser", "RestoreUser"}
          /\ proc[p].before = NoRow ) =>
            /\ proc[p].pc = "idle"
            /\ proc[p].result = (IF proc[p].infra THEN ErrDB ELSE ErrUserNotFound)
            /\ proc[p].user = NoAgg
            /\ proc[p].write = "none"
            /\ proc[p].after = NoRow
            /\ Dispatched(p) = {}
            /\ db[proc[p].arg] = NoRow

\* RestoreUser was handed an id without a record while another user is
\* persisted, and reported "user not found"
C15_Witness ==
    \E p \in SeqProcs :
        /\ proc[p].op = "RestoreUser"
        /\ proc[p].before = NoRow
        /\ proc[p].result = ErrUserNotFound
        /\ \E id \in UserIds : db[id] # NoRow

\* C16: a RestoreUser for a persisted user that is not deleted returns
\* "user is not deleted" (the error of the lookup itself when the lookup
\* fails), issues no Update and leaves the persisted record as it was.
C16_RestoreOfActiveRejected ==
    \A p \in SeqProcs :
        ( /\ proc[p].op = "RestoreUser"
          /\ proc[p].before # NoRow
          /\ ~IsDeleted(proc[p].before) ) =>
            /\ proc[p].pc = "idle"
            /\ proc[p].result = (IF proc[p].infra THEN ErrDB ELSE ErrNotDeleted)
            /\ proc[p].write = "none"
            /\ proc[p].after = NoRow
            /\ db[proc[p].arg] = proc[p].before
            /\ Dispatched(p) = {}

\* RestoreUser was refused for an active user
C16_Witness ==
    \E p \in SeqProcs :
        /\ proc[p].op = "RestoreUser"
        /\ proc[p].result = ErrNotDeleted
        /\ proc[p].before # NoRow
        /\ proc[p].before.isActive
        /\ db[proc[p].arg] = proc[p].before

\* C17: a RestoreUser for a persisted soft-deleted user that has returned:
\* if its Update succeeded it returned success and the persisted record is
\* the loaded one with DeletedAt nil and IsActive true; if not (the lookup
\* or the Update failed) it returned that error and the persisted record is
\* the loaded one, still deleted.  Until the Update the record is untouched.
C17_RestoreUserOutcome ==
    \A p \in SeqProcs :
        ( /\ proc[p].op = "RestoreUser"
          /\ proc[p].before # NoRow
          /\ IsDeleted(proc[p].before) ) =>
            /\ proc[p].pc \in {"Update", "idle"}
            /\ proc[p].pc = "Update" =>
                  /\ proc[p].write = "none"
                  /\ db[proc[p].arg] = proc[p].before
            /\ (proc[p].pc = "idle" /\ proc[p].write = "ok") =>
                  /\ proc[p].result = "ok"
                  /\ db[proc[p].arg] = proc[p].after
                  /\ db[proc[p].arg].deletedAt = NoTime
                  /\ ~IsDeleted(db[proc[p].arg])
                  /\ db[proc[p].arg].isActive
                  /\ db[proc[p].arg] =
                        [proc[p].before EXCEPT !.deletedAt = NoTime,
                                               !.isActive = TRUE,
                                               !.updatedAt = now]
            /\ (proc[p].pc = "idle" /\ proc[p].write # "ok") =>
                  /\ proc[p].result = ErrDB
                  /\ proc[p].infra
                  /\ db[proc[p].arg] = proc[p].before
                  /\ IsDeleted(db[proc[p].arg])
                  /\ ~db[proc[p].arg].isActive

\* RestoreUser brought a soft-deleted, inactive user back
C17_Witness ==
    \E p \in SeqProcs :
        /\ proc[p].op = "RestoreUser"
        /\ proc[p].result = "ok"
        /\ IsDeleted(proc[p].before)
        /\ ~proc[p].before.isActive
        /\ Visible(db[proc[p].arg])
        /\ db[proc[p].arg].isActive

\* C18: RestoreUser restores the aggregate without appending an event to
\* its buffer, which is after the restore what it was when the aggregate
\* was loaded, and never reaches the dispatcher: no Handle and no Publish
\* is invoked, whatever handlers and publisher are configured.
C18_RestoreRaisesNothing ==
    \A p \in SeqProcs :
        proc[p].op = "RestoreUser" =>
            /\ proc[p].pc \in {"Update", "idle"}
            /\ proc[p].calls = <<>>
            /\ proc[p].published = <<>>
            /\ proc[p].dispErr = NoErr
            /\ Dispatched(p) = {}
            /\ proc[p].user # NoAgg =>
                  /\ proc[p].user.domainEvents = proc[p].before.domainEvents
                  /\ DomainEvents(proc[p].user) = <<>>

\* RestoreUser succeeded under a dispatcher that has a handler for every
\* event and a publisher
C18_Witness ==
    \E p \in SeqProcs :
        /\ proc[p].op = "RestoreUser"
        /\ proc[p].pc = "idle"
        /\ proc[p].write = "ok"
        /\ ~IsDeleted(proc[p].user)
        /\ \E j \in 1..Len(handlers) : handlers[j] = "AnyEventHandler"
        /\ publisher # NoPublisher

\* C19: a SoftDeleteUser for a persisted active user whose Update and
\* dispatch succeeded returned success; the persisted record is the loaded
\* one with DeletedAt set and IsActive false; the one UserDeleted event of
\* that id went once to every handler that can handle it, to no other
\* handler, and in one batch to the publisher; the buffer is empty.
C19_SoftDeleteUserOutcome ==
    \A p \in SeqProcs :
        ( /\ proc[p].op = "SoftDeleteUser"
          /\ proc[p].pc = "idle"
          /\ proc[p].before # NoRow
          /\ ~IsDeleted(proc[p].before)
          /\ proc[p].write = "ok"
          /\ proc[p].dispErr = NoErr ) =>
            /\ proc[p].result = "ok"
            /\ db[proc[p].arg] = proc[p].after
            /\ IsDeleted(db[proc[p].arg])
            /\ ~db[proc[p].arg].isActive
            /\ db[proc[p].arg] =
                  [proc[p].before EXCEPT !.deletedAt = now, !.isActive = FALSE,
                                         !.updatedAt = now]
            /\ DeliveredOnce(p, Event("UserDeleted", proc[p].arg, now))
            /\ proc[p].user.id = proc[p].arg
            /\ DomainEvents(proc[p].user) = <<>>

\* the UserDeleted event of a soft-deleted user went to two handlers and to
\* the publisher
C19_Witness ==
    \E p \in SeqProcs :
        /\ proc[p].op = "SoftDeleteUser"
        /\ proc[p].result = "ok"
        /\ proc[p].dispErr = NoErr
        /\ Len(proc[p].calls) = 2
        /\ proc[p].published # <<>>
        /\ IsDeleted(db[proc[p].arg])

\* ========================================================================
\* Properties of the User aggregate and its Profile (SpecProfile)
\* ========================================================================
\* C20 as claimed: when Delete on a User that has a Profile returns, the
\* user and its profile are both deleted.
C20_DeleteCascadesToProfile ==
    ( /\ lastOp = "Delete"
      /\ pre.kind = "User"
      /\ pre.profile # NoProfile ) =>
        /\ IsDeleted(agg)
        /\ IsDeleted(agg.profile)

C26_MutationRefreshesUpdatedAt ==
    lastOp \in {"Delete", "SoftDelete", "Restore", "Cancel"}
        => /\ agg.updatedAt = calledAt
           /\ agg.id = pre.id
           /\ agg.createdAt = pre.createdAt

\* C27: AddDomainEvent appends its event at the tail of the buffer, whether or
\* not the buffer already holds an equal event, and changes nothing else of
\* the aggregate; DomainEvents() returns the whole buffer in order and leaves
\* the aggregate as it was.
C27_AppendAndRead ==
    /\ lastOp = "AddDomainEvent"
          => /\ Len(agg.domainEvents) = Len(pre.domainEvents) + 1
             /\ agg.domainEvents[Len(agg.domainEvents)] = inp.event
             /\ SubSeq(agg.domainEvents, 1, Len(pre.domainEvents))
                    = pre.domainEvents
             /\ [agg EXCEPT !.domainEvents = pre.domainEvents] = pre
    /\ lastOp = "DomainEvents"
          => /\ lastErr.events = pre.domainEvents
             /\ agg = pre

\* an event equal to a buffered one was appended, and DomainEvents() then
\* returned both
C27_Witness ==
    /\ lastOp = "DomainEvents"
    /\ prevOp = "AddDomainEvent"
    /\ Len(agg.domainEvents) = 2
    /\ agg.domainEvents[1] = agg.domainEvents[2]
    /\ lastErr.events = agg.domainEvents

\* ------------------------------------------------------------------------
\* Properties of the repository listings (SpecSeq)
\* ------------------------------------------------------------------------
Ids(rows) == {rows[i].id : i \in 1..Len(rows)}

AllActive == List(db, 0, MaxUsers)
AllDeleted == ListDeleted(db, 0, MaxUsers)
AllUsers == ListIncludeDeleted(db, 0, MaxUsers)

DispatchFailed(p) ==
    /\ proc[p].op \in {"CreateUser", "SoftDeleteUser"}
    /\ proc[p].pc = "idle"
    /\ proc[p].dispErr # NoErr

\* C23 as stated: when DispatchEvents fails inside CreateUser or
\* SoftDeleteUser the caller is returned an error, and the record the
\* invocation wrote is still in the table.
C23_DispatchFailureSurfaced ==
    \A p \in SeqProcs :
        DispatchFailed(p) =>
            /\ proc[p].result # "ok"
            /\ proc[p].write = "ok"
            /\ db[proc[p].arg] = proc[p].after

\* C23, amended: when DispatchEvents fails inside CreateUser or
\* SoftDeleteUser the error is logged and the caller is returned success;
\* the record the invocation wrote is still in the table, and the events stay
\* in the buffer of the aggregate the invocation held.
C23_DispatchFailureLogged ==
    \A p \in SeqProcs :
        DispatchFailed(p) =>
            /\ proc[p].result = "ok"
            /\ proc[p].write = "ok"
            /\ proc[p].after # NoRow
            /\ db[proc[p].arg] = proc[p].after
            /\ proc[p].op = "SoftDeleteUser" => IsDeleted(db[proc[p].arg])
            /\ proc[p].op = "CreateUser" => Visible(db[proc[p].arg])
            /\ proc[p].user.domainEvents # <<>>

\* a handler failed inside SoftDeleteUser, which returned success and left
\* the user deleted
C23_Witness ==
    /\ DispatchFailed("p1")
    /\ proc["p1"].op = "SoftDeleteUser"
    /\ proc["p1"].dispErr.kind = "handler"
    /\ proc["p1"].result = "ok"
    /\ IsDeleted(db[proc["p1"].arg])

\* ------------------------------------------------------------------------
\* Properties of concurrent invocations (Spec)
\* ------------------------------------------------------------------------
\* p and q ran SoftDeleteUser for the same id, both loaded the active record
\* and passed the check, and the Update of p came between the load and the
\* Update of q: both checks were made before either write
RacedSoftDelete(p, q) ==
    /\ p # q
    /\ proc[p].op = "SoftDeleteUser" /\ proc[q].op = "SoftDeleteUser"
    /\ proc[p].arg = proc[q].arg
    /\ Visible(proc[p].before) /\ Visible(proc[q].before)
    /\ proc[p].write = "ok"
    /\ proc[q].stale
    /\ proc[p].pc = "idle" /\ proc[q].pc = "idle"

\* C24: when two SoftDeleteUser invocations for one active id have both
\* passed the check before either wrote, and no repository call fails, both
\* write the deleted record, both return success, and each hands one
\* UserDeleted event of that id to the dispatcher.
C24_BothSoftDeletesSucceed ==
    \A p, q \in Procs :
        (RacedSoftDelete(p, q) /\ ~proc[p].infra /\ ~proc[q].infra) =>
            /\ proc[q].write = "ok"
            /\ IsDeleted(proc[p].after) /\ IsDeleted(proc[q].after)
            /\ IsDeleted(db[proc[q].arg])
            /\ \A r \in {p, q} :
                  /\ proc[r].result = "ok"
                  /\ Dispatched(r) \subseteq
                        {Event("UserDeleted", proc[r].arg, now)}
                  /\ handlers # <<>> => Dispatched(r) # {}
                  /\ proc[r].dispErr = NoErr =>
                        /\ DeliveredOnce(r, Event("UserDeleted", proc[r].arg, now))
                        /\ DomainEvents(proc[r].user) = <<>>

\* both invocations of such a race returned success, and the UserDeleted
\* event went to the handlers and the publisher twice, once from each
C24_Witness ==
    /\ RacedSoftDelete("p1", "p2")
    /\ proc["p1"].result = "ok" /\ proc["p2"].result = "ok"
    /\ proc["p2"].write = "ok"
    /\ db[proc["p2"].arg] = proc["p2"].after
    /\ proc["p1"].dispErr = NoErr /\ proc["p2"].dispErr = NoErr
    /\ proc["p1"].published # <<>> /\ proc["p2"].published # <<>>

\* ------------------------------------------------------------------------
\* Properties of a crash between write and dispatch (SpecCrash)
\* ------------------------------------------------------------------------
\* C25: when the process crashes after the repository write of an invocation
\* and before its dispatch, the record stays as the write left it, and the
\* events that were in the buffer are from then on in no aggregate an
\* invocation holds and are handed to no handler and to no publisher: no
\* record in the table carries events from which they could be sent again.
C25_CrashLosesEvents ==
    /\ \A p \in SeqProcs :
          /\ Dispatched(p) \cap lost = {}
          /\ Buffered(p) \cap lost = {}
          /\ proc[p].result = "crashed" =>
                /\ proc[p].write = "ok"
                /\ proc[p].after # NoRow
                /\ db[proc[p].arg] = proc[p].after
                /\ Dispatched(p) = {}
    /\ \A id \in UserIds : db[id] # NoRow => db[id].domainEvents = <<>>

\* the UserCreated event of a user was lost in a crash; a later
\* SoftDeleteUser of that user delivered its own event
C25_Witness ==
    /\ \E e \in lost : e.type = "UserCreated" /\ e.id = proc["p1"].arg
    /\ proc["p1"].op = "SoftDeleteUser"
    /\ proc["p1"].pc = "idle"
    /\ proc["p1"].result = "ok"
    /\ proc["p1"].dispErr = NoErr
    /\ Dispatched("p1") # {}

\* ------------------------------------------------------------------------
\* Properties of UserDomainService (SpecDom)
\* ------------------------------------------------------------------------
\* the invocation of p is a CreateUserWithProfile that has returned
DomReturned(p) ==
    proc[p].op = "CreateUserWithProfile" /\ proc[p].pc = "idle"
    /\ proc[p].result # "none"

\* C28: CreateUserWithProfile returns "user already exists" exactly when the
\* email lookup returned a user, which it does when an active user has the
\* email and the lookup does not fail, and then it has called neither
\* userRepo.Create nor profileRepo.Create and the tables are untouched.
\* Otherwise it calls userRepo.Create first; profileRepo.Create is called
\* only after the user was written and only if a profile is given, with the
\* UserID of the profile set to the id of the user; when these writes
\* succeed it returns nil and the user, and the profile, are in the tables.
C28_CreateUserWithProfile ==
    \A p \in SeqProcs :
        DomReturned(p) =>
            /\ proc[p].result = ErrUserAlreadyExists <=> proc[p].found # NoRow
            /\ (proc[p].held.email /\ ~proc[p].infra) =>
                  proc[p].result = ErrUserAlreadyExists
            /\ proc[p].result = ErrUserAlreadyExists =>
                  /\ proc[p].held.email
                  /\ proc[p].found.email = proc[p].user.email
                  /\ proc[p].trace = <<"userRepo.GetByEmail">>
                  /\ db[proc[p].arg] = NoRow
                  /\ proc[p].given # NoProfile =>
                        \A pr \in profiles : pr.id # proc[p].given.id
            /\ proc[p].result # ErrUserAlreadyExists =>
                  /\ Len(proc[p].trace) >= 2
                  /\ proc[p].trace[2] = "userRepo.Create"
                  /\ \A k \in 1..Len(proc[p].trace) :
                        proc[p].trace[k] = "profileRepo.Create" =>
                           /\ k = 3
                           /\ proc[p].write = "ok"
                           /\ proc[p].given # NoProfile
                           /\ proc[p].profile.userID = proc[p].user.id
                  /\ (proc[p].write = "ok" /\ proc[p].given = NoProfile) =>
                        /\ proc[p].result = "ok"
                        /\ proc[p].trace =
                              <<"userRepo.GetByEmail", "userRepo.Create">>
                        /\ db[proc[p].arg] = Row(proc[p].user)
                  /\ (proc[p].write = "ok" /\ proc[p].given # NoProfile) =>
                        proc[p].trace[3] = "profileRepo.Create"
                  /\ proc[p].profileWrite = "ok" =>
                        /\ proc[p].result = "ok"
                        /\ db[proc[p].arg] = Row(proc[p].user)
                        /\ [proc[p].given EXCEPT !.userID = proc[p].arg]
                              \in profiles
                  /\ proc[p].result = "ok" =>
                        proc[p].given = NoProfile \/ proc[p].profileWrite = "ok"

\* a user was created with a profile that was made for another user id, and
\* the profile stored has the id of the user
C28_Witness ==
    /\ DomReturned("p1")
    /\ proc["p1"].result = "ok"
    /\ proc["p1"].given # NoProfile
    /\ proc["p1"].given.userID = OtherUserID
    /\ \E pr \in profiles :
          pr.id = proc["p1"].given.id /\ pr.userID = proc["p1"].arg
    /\ db[proc["p1"].arg] # NoRow

\* ------------------------------------------------------------------------
\* Properties of ValidateProduct and IsValid (SpecValid)
\* ------------------------------------------------------------------------
\* C29: ValidateProduct returns an error exactly when the price is <= 0, the
\* name is empty or the SKU is empty; the error is the one of the price if
\* the price is <= 0, else the one of the name if the name is empty, else the
\* one of the SKU; otherwise it returns nil.  The product is not changed.
C29_ValidateProduct ==
    lastOp = "ValidateProduct" =>
        /\ lastErr.value # "ok" <=>
              (pre.price <= 0 \/ pre.name = "" \/ pre.sku = "")
        /\ pre.price <= 0 =>
              lastErr.value = "product price must be greater than zero"
        /\ (pre.price > 0 /\ pre.name = "") =>
              lastErr.value = "product name is required"
        /\ (pre.price > 0 /\ pre.name # "" /\ pre.sku = "") =>
              lastErr.value = "product SKU is required"
        /\ agg = pre

\* a product without name and SKU and with a price of zero was rejected for
\* its price
C29_Witness ==
    /\ lastOp = "ValidateProduct"
    /\ pre.price = 0
    /\ pre.name = ""
    /\ pre.sku = ""
    /\ lastErr.value = "product price must be greater than zero"

\* C30: IsValid() is true for pending, confirmed, shipped, delivered and
\* cancelled and false for every other value, the empty string included.
C30_IsValid ==
    lastOp = "IsValid" =>
        /\ lastErr.value <=>
              pre.status \in {"pending", "confirmed", "shipped", "delivered",
                              "cancelled"}
        /\ pre.status = "" => ~lastErr.value
        /\ pre.status \in {"invalid", "PENDING", "refunded"} => ~lastErr.value

\* the empty status was found invalid
C30_Witness ==
    /\ lastOp = "IsValid"
    /\ pre.status = ""
    /\ lastErr.value = FALSE

\* ------------------------------------------------------------------------
\* Properties of the uniqueness of email and username
\* ------------------------------------------------------------------------
\* C31 as claimed (Spec): a CreateUser whose lookups did not fail calls
\* userRepo.Create only when no active persisted user has its email or its
\* username, whatever another CreateUser does at the same time.
C31_CheckAloneExcludesDuplicates ==
    \A p \in Procs :
        ( /\ proc[p].op = "CreateUser"
          /\ proc[p].write # "none"
          /\ ~proc[p].infra ) => ~proc[p].clash

\* C32 (SpecSeq): no two active persisted users have the same email or the
\* same username, and a user RestoreUser has restored is the only active
\* user with its email and with its username.
C32_ActiveUsersUnique ==
    /\ \A i, j \in UserIds :
          (i # j /\ Visible(db[i]) /\ Visible(db[j])) =>
              /\ db[i].email # db[j].email
              /\ db[i].username # db[j].username
    /\ \A p \in SeqProcs :
          ( /\ proc[p].op = "RestoreUser"
            /\ proc[p].pc = "idle"
            /\ proc[p].result = "ok" ) =>
              /\ Visible(db[proc[p].arg])
              /\ \A j \in UserIds \ {proc[p].arg} :
                    db[j] # NoRow =>
                       /\ db[j].email # db[proc[p].arg].email
                       /\ db[j].username # db[proc[p].arg].username

\* the first user was deleted and restored; the CreateUser that was given
\* the second id has persisted nothing
C32_Witness ==
    /\ proc["p1"].op = "RestoreUser"
    /\ proc["p1"].pc = "idle"
    /\ proc["p1"].result = "ok"
    /\ proc["p1"].arg = 1
    /\ Visible(db[1])
    /\ nextId = 3
    /\ db[2] = NoRow

\* C34 as claimed (SpecSeq): a CreateUser that is about to call
\* userRepo.Create has had no lookup fail with an error other than "not
\* found".
C34_LookupErrorStopsCreateUser ==
    \A p \in SeqProcs :
        (proc[p].op = "CreateUser" /\ proc[p].pc = "Create") => ~proc[p].infra

\* C39 (Spec): for every persisted user IsActive is true if and only if the
\* user is not deleted.
C39_ActiveIffNotDeleted ==
    \A id \in UserIds :
        db[id] # NoRow => (db[id].isActive <=> ~IsDeleted(db[id]))

\* a user that was deleted and inactive has been restored and is active
C39_Witness ==
    \E p \in Procs :
        /\ proc[p].op = "RestoreUser"
        /\ proc[p].pc = "idle"
        /\ proc[p].result = "ok"
        /\ IsDeleted(proc[p].before) /\ ~proc[p].before.isActive
        /\ ~IsDeleted(db[proc[p].arg]) /\ db[proc[p].arg].isActive

\* ------------------------------------------------------------------------
\* Properties of the use cases of the command handlers (SpecDom)
\* ------------------------------------------------------------------------
\* C33 as claimed: when CreateUserWithProfile has returned success, the
\* UserCreated event of the user has been handed to the dispatcher and the
\* buffer of the user is empty.
C33_CreatedEventDispatched ==
    \A p \in SeqProcs :
        (DomReturned(p) /\ proc[p].result = "ok") =>
            DomainEvents(proc[p].user) = <<>>

\* C38 as claimed: when CreateUserWithProfile has returned an error, the
\* users table holds no record of the user it was called with.
C38_AllOrNothing ==
    \A p \in SeqProcs :
        (DomReturned(p) /\ proc[p].result # "ok") => db[proc[p].arg] = NoRow

\* ------------------------------------------------------------------------
\* Properties of a repeated dispatch (SpecRetry)
\* ------------------------------------------------------------------------
\* the shorter of two lengths
Shorter(a, b) == IF Len(a) < Len(b) THEN Len(a) ELSE Len(b)

\* C35: when DispatchEvents failed at a handler and is called again on the
\* same aggregate, the second call works on the same buffer and starts over:
\* it makes the Handle invocations of the first call again, in the same
\* order, all of them unless it fails earlier itself, the ones that had
\* succeeded included; when it returns nil, every event of the buffer has
\* gone to every handler that can handle it and the buffer is empty.
C35_RetryRedeliversBatch ==
    [][ ( /\ lastOp = "DispatchEvents"
          /\ lastErr.kind = "handler"
          /\ lastOp' = "DispatchEvents" ) =>
            /\ pre' = agg
            /\ pre'.domainEvents = pre.domainEvents
            /\ SubSeq(calls', 1, Shorter(calls, calls'))
                  = SubSeq(calls, 1, Shorter(calls, calls'))
            /\ (inp'.failAt = 0 \/ inp'.failAt >= Len(calls)) =>
                  Len(calls') >= Len(calls)
            /\ lastErr' = NoErr =>
                  /\ agg'.domainEvents = <<>>
                  /\ \A i \in 1..Len(agg.domainEvents), j \in 1..Len(handlers) :
                        CanHandle(handlers[j], agg.domainEvents[i]) =>
                           \E k \in 1..Len(calls') :
                              /\ calls'[k].handler = j
                              /\ calls'[k].index = i
                              /\ calls'[k].event = agg.domainEvents[i]
      ]_vars

\* a DispatchEvents without publisher came right after a DispatchEvents that
\* had left two events in the buffer, which only a handler error does, and
\* delivered both events
C35_Witness ==
    /\ lastOp = "DispatchEvents"
    /\ prevOp = "DispatchEvents"
    /\ publisher = NoPublisher
    /\ lastErr = NoErr
    /\ Len(pre.domainEvents) = 2
    /\ Len(calls) >= 2
    /\ agg.domainEvents = <<>>

\* ------------------------------------------------------------------------
\* Properties of OrderDomainService (SpecOrder)
\* ------------------------------------------------------------------------
\* C36 as claimed: an order whose persisted status is delivered or cancelled
\* keeps that status in every step, whatever UpdateOrderStatus calls are
\* under way.
C36_TerminalStatusFinal ==
    [][ \A id \in OrderIds :
          ( /\ orders[id] # NoRow
            /\ orders[id].status \in
                  {OrderStatusDelivered, OrderStatusCancelled} ) =>
              orders'[id].status = orders[id].status
      ]_vars

\* the sum over items of price times quantity
RECURSIVE ItemSum(_)
ItemSum(items) ==
    IF items = <<>> THEN 0
    ELSE Head(items).price * Head(items).quantity + ItemSum(Tail(items))

\* C37 as claimed: a CreateOrder for no items, or with an item of quantity
\* <= 0 or of an unknown product, returns an error and persists nothing;
\* after a CreateOrder that returned nil every item of the persisted order
\* has the price of its product, TotalPrice is the sum over the items of
\* price times quantity, and the status is pending.
C37_CreateOrder ==
    \A p \in Procs :
        (proc[p].op = "CreateOrder" /\ proc[p].pc = "idle") =>
            LET items == proc[p].order.items
                bad == \/ items = <<>>
                       \/ \E k \in 1..Len(items) :
                             \/ items[k].quantity <= 0
                             \/ items[k].productID \notin DOMAIN ProductPrice
            IN  /\ bad => (proc[p].result # "ok" /\ proc[p].write = "none")
                /\ proc[p].write # "ok" =>
                      (proc[p].result # "ok" /\ orders[proc[p].arg] = NoRow)
                /\ proc[p].result = "ok" =>
                      LET o == proc[p].order
                      IN  /\ o.status = OrderStatusPending
                          /\ \A k \in 1..Len(o.items) :
                                o.items[k].price =
                                   ProductPrice[o.items[k].productID]
                          /\ o.totalPrice = ItemSum(o.items)

====
